---------------------------- MODULE Spec2Model ----------------------------
(***************************************************************************)
(* AutoRBI extraction-and-synchronisation engine.                          *)
(*                                                                         *)
(*   MasterfileExtractor  src/src/data_extractor/masterfile_extractor.py   *)
(*   DataUpdater          src/src/data_extractor/data_updater.py           *)
(*   find_equipment_images src/src/data_extractor/utils.py                 *)
(*   ExcelManager         src/src/excel_manager.py                         *)
(*   NewWorkView          src/src/UserInterface/views/new_work.py          *)
(*                                                                         *)
(* Python strings are sequences of one-character strings, so that lower(), *)
(* replace(), the substring test and the digit filter are computed.        *)
(***************************************************************************)
EXTENDS Integers, Sequences, FiniteSets, TLC

VARIABLES
    pc,             \* position in process_and_update_equipment / update_equipment
    equipment_map,  \* Dict[str, Equipment]: equipment_number -> Equipment
    pre_map,        \* the equipment map as it was handed to the pipeline
    eq_idx,         \* position of process_equipment_images in equipment_map.items()
    image_files,    \* _process_single_equipment: find_equipment_images(pmt_number)
    img_idx,        \* position of the `for image_file in image_files` loop
    attempt,        \* extract_technical_data: loop variable of range(max_retries)
    calls,          \* client.messages.create invocations of the current extract call
    sleeps,         \* time.sleep(delay) arguments of the current extract call
    outcomes,       \* what each attempt of the current extract call ended with
    technical_data, \* return value of the last extract_technical_data call
    tried,          \* images handed to extract_technical_data for this equipment
    extracted_data, \* Dict[str, Dict]: equipment_number -> technical data
    ws,             \* ExcelManager.wb['Masterfile']: row -> column -> cell value
    pre_ws,         \* the sheet as load_workbook read it
    current_row,    \* read_masterfile: the row being scanned
    current_equipment, \* read_masterfile: <<>> for None, else <<Equipment>>
    ops,            \* the operations applied to the loaded map, latest last
    file_path,      \* ExcelManager.file_path, the workbook that was loaded
    os_name,        \* os.name, the platform whose os.path the program runs on
    saved,          \* <<>>, or the save_to_excel call that was made
    threads,        \* NewWorkView: the extraction threads that were started
    overlay         \* the loading overlay: "hidden", "requested" or "mapped"

vars == <<pc, equipment_map, pre_map, eq_idx, image_files, img_idx, attempt,
          calls, sleeps, outcomes, technical_data, tried, extracted_data,
          ws, pre_ws, current_row, current_equipment, ops, file_path, os_name, saved,
          threads, overlay>>

\* the state of the New Work view
ui_vars == <<threads, overlay>>

---------------------------------------------------------------------------
(* Python str primitives                                                   *)

\* Characters in code-point order (str and Path comparison are by code point).
CharOrder ==
    <<" ", "-", ".", "/", "0", "1", "2", "3", "4", "5", "6", "7", "8", "9",
      "A", "B", "C", "D", "E", "F", "G", "H", "I", "J", "K", "L", "M",
      "N", "O", "P", "Q", "R", "S", "T", "U", "V", "W", "X", "Y", "Z", "_",
      "a", "b", "c", "d", "e", "f", "g", "h", "i", "j", "k", "l", "m",
      "n", "o", "p", "q", "r", "s", "t", "u", "v", "w", "x", "y", "z",
      "deg", "sup2">>   \* U+00B0 DEGREE SIGN, U+00B2 SUPERSCRIPT TWO

CodePoint(c) == CHOOSE i \in 1..Len(CharOrder) : CharOrder[i] = c

UpperChars ==
    <<"A", "B", "C", "D", "E", "F", "G", "H", "I", "J", "K", "L", "M",
      "N", "O", "P", "Q", "R", "S", "T", "U", "V", "W", "X", "Y", "Z">>

LowerChars ==
    <<"a", "b", "c", "d", "e", "f", "g", "h", "i", "j", "k", "l", "m",
      "n", "o", "p", "q", "r", "s", "t", "u", "v", "w", "x", "y", "z">>

\* str.lower() on one character
LowerChar(c) ==
    IF \E i \in 1..Len(UpperChars) : UpperChars[i] = c
    THEN LowerChars[CHOOSE i \in 1..Len(UpperChars) : UpperChars[i] = c]
    ELSE c

\* str.lower()
Lower(s) == [i \in 1..Len(s) |-> LowerChar(s[i])]

\* `needle in haystack` on str
Contains(haystack, needle) ==
    \E i \in 0..(Len(haystack) - Len(needle)) :
        \A j \in 1..Len(needle) : haystack[i + j] = needle[j]

\* s.replace(c, '') for a one-character c
RemoveChar(s, c) == SelectSeq(s, LAMBDA x : x # c)

\* lexicographic a < b by code point
StrLess(a, b) ==
    \E k \in 1..(Len(b)) :
        /\ k <= Len(a) + 1
        /\ \A j \in 1..(k - 1) : a[j] = b[j]
        /\ \/ k = Len(a) + 1
           \/ (k <= Len(a) /\ CodePoint(a[k]) < CodePoint(b[k]))

\* s.endswith(suffix)
EndsWith(s, suffix) ==
    /\ Len(suffix) <= Len(s)
    /\ \A j \in 1..Len(suffix) : s[Len(s) - Len(suffix) + j] = suffix[j]

\* Python None, as a value that is no str (every str element is one character)
None == <<"None">>

\* Python dict with no key
EmptyDict == [k \in {} |-> <<>>]

---------------------------------------------------------------------------
(* find_equipment_images                                                   *)

MaxImages == 3

\* Files of the converted_to_image directory
ImageNames ==
    <<<<"p", "_", "1", "-", "b", ".", "j", "p", "g">>,
      <<"P", "2", ".", "j", "p", "e", "g">>,
      <<"P", "1", ".", "p", "n", "g">>,
      <<"P", "-", "1", " ", "a", ".", "p", "n", "g">>,
      <<"P", "-", "1", ".", "j", "p", "g">>>>

OtherFiles == {<<"P", "1", ".", "t", "x", "t">>}

ImageDir ==
    {ImageNames[i] : i \in 1..(IF MaxImages < Len(ImageNames) THEN MaxImages ELSE Len(ImageNames))}
        \cup OtherFiles

GlobPatterns ==
    {<<".", "p", "n", "g">>, <<".", "j", "p", "g">>, <<".", "j", "p", "e", "g">>}

\* Path.stem: the file name without its last suffix
Stem(name) ==
    LET dots == {i \in 2..(Len(name) - 1) : name[i] = "."}
    IN  IF dots = {} THEN name
        ELSE SubSeq(name, 1, (CHOOSE i \in dots : \A j \in dots : j <= i) - 1)

\* .replace(' ', '').replace('-', '').replace('_', '').lower()
CleanName(s) == Lower(RemoveChar(RemoveChar(RemoveChar(s, " "), "-"), "_"))

RECURSIVE SortPaths(_)
\* list.sort() on Path objects
SortPaths(S) ==
    IF S = {} THEN <<>>
    ELSE LET m == CHOOSE x \in S : \A y \in S \ {x} : StrLess(x, y)
         IN  <<m>> \o SortPaths(S \ {m})

\* find_equipment_images(pmt_number) for a str pmt_number
find_equipment_images(pmt_number) ==
    LET clean_pmt == CleanName(pmt_number)
        matched == {f \in ImageDir :
                       /\ \E pattern \in GlobPatterns : EndsWith(f, pattern)
                       /\ Contains(CleanName(Stem(f)), clean_pmt)}
    IN  SortPaths(matched)

---------------------------------------------------------------------------
(* Rule tables, Equipment, Component                                        *)

\* ExtractionRules.INSULATION_ONLY_EQUIPMENT
INSULATION_ONLY_EQUIPMENT == {"H-001", "H-002"}

\* ExtractionRules.SKIP_OPERATING_PRESSURE_TEMPERATURE
SKIP_OPERATING_PRESSURE_TEMPERATURE == {"V-002", "H-002"}

\* keys of Component.existing_data
ExistingKeys ==
    {"fluid", "material_type", "spec", "grade", "insulation", "design_temp",
     "design_pressure", "operating_temp", "operating_pressure"}

\* Equipment.get_component(component_name): index of the component, 0 for None
get_component(equipment, component_name) ==
    LET found == {i \in 1..Len(equipment.components) :
                     equipment.components[i].component_name = component_name}
    IN  IF found = {} THEN 0 ELSE CHOOSE i \in found : \A j \in found : i <= j

\* Component.update_existing_data(updates)
update_existing_data(existing_data, updates) ==
    [k \in DOMAIN existing_data |->
        IF k \in DOMAIN updates THEN updates[k] ELSE existing_data[k]]

\* equipment_map.get(equipment_number): index of the entry, 0 for None
MapIndex(map, equipment_number) ==
    LET found == {i \in 1..Len(map) : map[i].equipment_number = equipment_number}
    IN  IF found = {} THEN 0 ELSE CHOOSE i \in found : TRUE

---------------------------------------------------------------------------
(* DataUpdater                                                             *)

NOT_FOUND == <<"N", "O", "T", "_", "F", "O", "U", "N", "D">>

EmptyStr == <<>>

Digits == {"0", "1", "2", "3", "4", "5", "6", "7", "8", "9"}

\* str.isdigit() on one character
IsDigit(c) == c \in Digits \cup {"sup2"}

RECURSIVE DigitsToInt(_)
DigitsToInt(ds) ==
    IF ds = <<>> THEN 0
    ELSE 10 * DigitsToInt(SubSeq(ds, 1, Len(ds) - 1))
            + (CodePoint(ds[Len(ds)]) - CodePoint("0"))

RECURSIVE StripTrailingZeros(_)
StripTrailingZeros(ds) ==
    IF ds # <<>> /\ ds[Len(ds)] = "0"
    THEN StripTrailingZeros(SubSeq(ds, 1, Len(ds) - 1))
    ELSE ds

\* whether float(s) succeeds, for s made of digits, '.', '-'
FloatParses(s) ==
    LET body == IF s # <<>> /\ s[1] = "-" THEN Tail(s) ELSE s
        dots == {i \in 1..Len(body) : body[i] = "."}
    IN  /\ \A i \in 1..Len(body) : body[i] \in Digits \cup {"."}
        /\ Cardinality(dots) <= 1
        /\ \E i \in 1..Len(body) : body[i] \in Digits

\* float(s): <<"float", m, e>> stands for m / 10^e
Float(s) ==
    LET neg == s[1] = "-"
        body == IF neg THEN Tail(s) ELSE s
        dots == {i \in 1..Len(body) : body[i] = "."}
        dot == IF dots = {} THEN Len(body) + 1 ELSE CHOOSE i \in dots : TRUE
        int_part == SubSeq(body, 1, dot - 1)
        frac_part == StripTrailingZeros(SubSeq(body, dot + 1, Len(body)))
        m == DigitsToInt(int_part \o frac_part)
    IN  <<"float", IF neg THEN 0 - m ELSE m, Len(frac_part)>>

\* DataUpdater._convert_value
_convert_value(value) ==
    IF value = NOT_FOUND \/ value = EmptyStr THEN None
    ELSE IF Lower(value) \in {<<"y", "e", "s">>, <<"n", "o">>} THEN Lower(value)
    ELSE LET clean_value == SelectSeq(value, LAMBDA c : IsDigit(c) \/ c \in {".", "-"})
         IN  IF clean_value # <<>> /\ clean_value # <<"-">> /\ FloatParses(clean_value)
             THEN Float(clean_value)
             ELSE value

\* a dict that holds the entries of d and d[key] = value
DictSet(d, key, value) ==
    [k \in DOMAIN d \cup {key} |-> IF k = key THEN value ELSE d[k]]

\* a sentinel test that forgets the empty string
IsSentinelNotFoundOnly(value) == value = NOT_FOUND

\* data_updater.py:48, `!= 'NOT_FOUND' and ... != ''`
IsSentinel(value) == value = NOT_FOUND \/ value = EmptyStr

\* data_updater.py:47-54, the fields an insulation-only equipment never gets
TextFields ==
    <<[source |-> "fluid", target |-> "fluid"],
      [source |-> "material_specification", target |-> "spec"],
      [source |-> "material_grade", target |-> "grade"]>>

\* data_updater.py:60-63, pressure_temp_fields of a skip-operating equipment
SkipPressureTempFields ==
    <<[source |-> "design_temperature", target |-> "design_temp"],
      [source |-> "design_pressure", target |-> "design_pressure"]>>

\* data_updater.py:65-70, pressure_temp_fields of any other equipment
PressureTempFields ==
    <<[source |-> "design_temperature", target |-> "design_temp"],
      [source |-> "design_pressure", target |-> "design_pressure"],
      [source |-> "operating_temperature", target |-> "operating_temp"],
      [source |-> "operating_pressure", target |-> "operating_pressure"]>>

\* a flag that is never set
FlagNeverSet(equipment_number) == FALSE

\* data_updater.py:44
skip_operating_pressure_temp(equipment_number) ==
    equipment_number \in SKIP_OPERATING_PRESSURE_TEMPERATURE

\* data_updater.py:45
insulation_only(equipment_number) ==
    equipment_number \in INSULATION_ONLY_EQUIPMENT

\* The comp_data keys _build_updates reads, in the order it reads them
KeysRead(equipment_number) ==
    (IF insulation_only(equipment_number) THEN <<>>
     ELSE [i \in 1..Len(TextFields) |-> TextFields[i].source])
    \o <<"insulation">>
    \o (IF skip_operating_pressure_temp(equipment_number) THEN <<>>
        ELSE [i \in 1..Len(PressureTempFields) |-> PressureTempFields[i].source])

RECURSIVE CopyFields(_, _, _, _)
\* updates[target] = f(comp_data[source]) for every listed non-sentinel field
CopyFields(updates, comp_data, fields, convert) ==
    IF fields = <<>> THEN updates
    ELSE LET value == comp_data[Head(fields).source]
             next == IF IsSentinel(value) THEN updates
                     ELSE DictSet(updates, Head(fields).target,
                                  IF convert THEN _convert_value(value) ELSE value)
         IN  CopyFields(next, comp_data, Tail(fields), convert)

\* DataUpdater._build_updates: the updates dict, or a KeyError on a missing key
_build_updates(comp_data, equipment_number) ==
    LET keys == KeysRead(equipment_number)
    IN  IF \E i \in 1..Len(keys) : keys[i] \notin DOMAIN comp_data
        THEN [raised |-> TRUE, updates |-> EmptyDict]
        ELSE LET u1 == IF ~insulation_only(equipment_number)
                       THEN CopyFields(EmptyDict, comp_data, TextFields, FALSE)
                       ELSE EmptyDict
                 u2 == CopyFields(u1, comp_data,
                          <<[source |-> "insulation", target |-> "insulation"]>>, FALSE)
                 u3 == IF ~skip_operating_pressure_temp(equipment_number)
                       THEN CopyFields(u2, comp_data, PressureTempFields, TRUE)
                       ELSE u2
             IN  [raised |-> FALSE, updates |-> u3]

\* an update that adds to the stored value instead of replacing it
ApplyUpdatesAppend(equipment, i, built) ==
    IF built.raised THEN [raised |-> TRUE, equipment |-> equipment]
    ELSE [raised |-> FALSE,
          equipment |->
             [equipment EXCEPT !.components[i].existing_data =
                 [k \in DOMAIN @ |->
                     IF k \in DOMAIN built.updates /\ @[k] # None
                     THEN @[k] \o built.updates[k]
                     ELSE IF k \in DOMAIN built.updates THEN built.updates[k]
                     ELSE @[k]]]]

\* data_updater.py:33-38, `if updates: component.update_existing_data(updates)`
ApplyUpdates(equipment, i, built) ==
    IF built.raised THEN [raised |-> TRUE, equipment |-> equipment]
    ELSE IF DOMAIN built.updates = {} THEN [raised |-> FALSE, equipment |-> equipment]
    ELSE [raised |-> FALSE,
          equipment |->
             [equipment EXCEPT !.components[i].existing_data =
                 update_existing_data(@, built.updates)]]

\* an update that falls back on the first component when none is found
UpdateFoundOrFirst(equipment, i, comp_data, equipment_number) ==
    ApplyUpdates(equipment, IF i = 0 THEN 1 ELSE i,
                 _build_updates(comp_data, equipment_number))

\* data_updater.py:28-32, component i (0: not found) gets the updates built for it
UpdateFound(equipment, i, comp_data, equipment_number) ==
    IF i = 0 THEN [raised |-> FALSE, equipment |-> equipment]
    ELSE ApplyUpdates(equipment, i, _build_updates(comp_data, equipment_number))

\* DataUpdater._update_component: the equipment afterwards, or an escaping KeyError
_update_component(equipment, comp_data, equipment_number) ==
    IF "component_name" \notin DOMAIN comp_data
    THEN [raised |-> TRUE, equipment |-> equipment]
    ELSE UpdateFound(equipment, get_component(equipment, comp_data["component_name"]),
                     comp_data, equipment_number)

RECURSIVE UpdateComponents(_, _, _)
RECURSIVE ContinueComponents(_, _, _)
\* data_updater.py:22-23, `for comp_data in components_data`
UpdateComponents(equipment, components_data, equipment_number) ==
    IF components_data = <<>> THEN [raised |-> FALSE, equipment |-> equipment]
    ELSE ContinueComponents(
             _update_component(equipment, Head(components_data), equipment_number),
             Tail(components_data), equipment_number)

\* an exception ends the loop, otherwise the next comp_data is merged
ContinueComponents(r, components_data, equipment_number) ==
    IF r.raised THEN r
    ELSE UpdateComponents(r.equipment, components_data, equipment_number)

\* data.get('components_data', [])
GetComponentsData(data) ==
    IF "components_data" \in DOMAIN data THEN data["components_data"] ELSE <<>>

RECURSIVE update_equipment(_, _)
RECURSIVE ContinueEquipment(_, _, _, _)
RECURSIVE FinishEquipment(_, _, _, _)
\* DataUpdater.update_equipment: the map afterwards, or an escaping KeyError
update_equipment(map, items) ==
    IF items = <<>> THEN [raised |-> FALSE, map |-> map]
    ELSE ContinueEquipment(map, MapIndex(map, Head(items).equipment_number),
                           Head(items), Tail(items))

\* data_updater.py:16-23, one (equipment_number, data) item; i = 0: not in the map
ContinueEquipment(map, i, item, items) ==
    IF i = 0 THEN update_equipment(map, items)
    ELSE FinishEquipment(map, i,
                         UpdateComponents(map[i], GetComponentsData(item.data),
                                          item.equipment_number),
                         items)

\* the equipment object was updated in place; an exception ends the loop
FinishEquipment(map, i, r, items) ==
    IF r.raised
    THEN [raised |-> TRUE, map |-> [map EXCEPT ![i] = r.equipment]]
    ELSE update_equipment([map EXCEPT ![i] = r.equipment], items)

---------------------------------------------------------------------------
(* MasterfileExtractor: retry and backoff                                  *)

\* masterfile_extractor.py:23
max_retries == 5

\* masterfile_extractor.py:24
base_delay == 1

\* str(error) of the exceptions an attempt can end with
Msg529 == <<"E", "r", "r", "o", "r", " ", "5", "2", "9">>
MsgOverloaded == <<"O", "v", "e", "r", "l", "o", "a", "d", "e", "d">>
Msg401 == <<"E", "r", "r", "o", "r", " ", "4", "0", "1">>
MsgDenied == <<"d", "e", "n", "i", "e", "d">>

\* what client.messages.create can raise
ServiceErrors == {Msg529, MsgOverloaded, Msg401}

\* what compress_image_for_api can raise (its fallback open() fails)
CompressErrors == {MsgDenied}

\* the overloaded test without lower()
IsOverloadedCaseSensitive(error_msg) ==
    \/ Contains(error_msg, <<"5", "2", "9">>)
    \/ Contains(error_msg, <<"o", "v", "e", "r", "l", "o", "a", "d", "e", "d">>)

\* masterfile_extractor.py:87
IsOverloaded(error_msg) ==
    \/ Contains(error_msg, <<"5", "2", "9">>)
    \/ Contains(Lower(error_msg), <<"o", "v", "e", "r", "l", "o", "a", "d", "e", "d">>)

\* a linear backoff
BackoffDelayLinear(attempt_no) == base_delay * (attempt_no + 1)

\* masterfile_extractor.py:88
BackoffDelay(attempt_no) == base_delay * (2 ^ attempt_no)

\* a _should_retry that retries every failure
_should_retry_any(error_msg, attempt_no) ==
    [retry |-> TRUE, slept |-> <<BackoffDelay(attempt_no)>>]

\* MasterfileExtractor._should_retry: its return value and the sleeps it takes
_should_retry(error_msg, attempt_no) ==
    IF IsOverloaded(error_msg)
    THEN [retry |-> TRUE, slept |-> <<BackoffDelay(attempt_no)>>]
    ELSE [retry |-> FALSE, slept |-> <<>>]

---------------------------------------------------------------------------
(* Values                                                                  *)

\* pmt_number cells of the Masterfile sheet
PmtP1 == <<"P", "-", "1">>
PmtX9 == <<"X", "9">>
PmtValues == {None, EmptyStr, PmtP1, PmtX9}

\* cell values read by read_masterfile (openpyxl gives str, float or None)
OldData ==
    [fluid |-> <<"O", "i", "l">>, material_type |-> <<"C", "S">>, spec |-> <<"A", "1", "0", "6">>, grade |-> <<"B">>,
     insulation |-> <<"N", "o">>, design_temp |-> <<"float", 100, 0>>,
     design_pressure |-> <<"float", 25, 1>>, operating_temp |-> <<"8", "0", " ", "C">>,
     operating_pressure |-> <<"float", 1, 0>>]

NoneData == [k \in ExistingKeys |-> None]

\* field values a parsed response can hold
Water == <<"W", "a", "t", "e", "r">>
A516 == <<"A", "5", "1", "6">>
Grade70 == <<"7", "0">>
InsYes == <<"Y", "e", "s">>
InsNo == <<"n", "o">>
Temp150C == <<"1", "5", "0", "deg", "C">>
TempNA == <<"N", "/", "A">>
TempPadded == <<" ", "N", "/", "A", " ">>
Press35 == <<"3", ".", "5">>
PressDash == <<"-">>
TempNeg == <<"-", "1", "0", ".", "5", "0">>
TempRange == <<"1", "-", "2">>
PressYes == <<"y", "e", "s">>
PressUnit == <<"1", "0", " ", "k", "g", "/", "c", "m", "sup2">>

SourceFields ==
    {"fluid", "material_specification", "material_grade", "insulation",
     "design_temperature", "design_pressure", "operating_temperature",
     "operating_pressure"}

FieldValues(f) ==
    CASE f = "fluid" -> {Water}
      [] f = "material_specification" -> {A516}
      [] f = "material_grade" -> {Grade70}
      [] f = "insulation" -> {InsYes, InsNo}
      [] f = "design_temperature" -> {Temp150C, TempNA, TempPadded}
      [] f = "design_pressure" -> {Press35, PressDash}
      [] f = "operating_temperature" -> {TempNeg, TempRange}
      [] f = "operating_pressure" -> {PressUnit, PressYes}

\* a per-component dictionary of ResponseParser.parse_response
CompData(name, fields) ==
    [k \in {"component_name"} \cup DOMAIN fields |->
        IF k = "component_name" THEN name ELSE fields[k]]

AllNotFound == [f \in SourceFields |-> NOT_FOUND]
AllEmpty == [f \in SourceFields |-> EmptyStr]
AllValues ==
    [f \in SourceFields |->
        CASE f = "fluid" -> Water
          [] f = "material_specification" -> A516
          [] f = "material_grade" -> Grade70
          [] f = "insulation" -> InsYes
          [] f = "design_temperature" -> Temp150C
          [] f = "design_pressure" -> Press35
          [] f = "operating_temperature" -> TempNeg
          [] f = "operating_pressure" -> PressUnit]
\* spec.md, section 8: the V-001 / Shell scenario
Scenario ==
    [AllNotFound EXCEPT !["fluid"] = Water, !["material_specification"] = A516]

BaseFields == {AllNotFound, AllEmpty, AllValues, Scenario}

\* every base with one field set to each of its values or sentinels
FieldSets ==
    {[b EXCEPT ![f] = v] : b \in BaseFields,
        <<f, v>> \in UNION {{<<g, w>> : w \in FieldValues(g) \cup {NOT_FOUND, EmptyStr}} :
                              g \in SourceFields}}

\* dictionaries that lack field keys (spec.md, section 8 writes the scenario so)
ScenarioPartial ==
    [f \in {"fluid", "material_specification", "insulation"} |-> Scenario[f]]

PartialFieldSets ==
    {ScenarioPartial,
     [f \in {"fluid", "material_specification", "material_grade", "insulation"} |->
        AllValues[f]],
     [f \in SourceFields \ {"operating_pressure"} |-> AllValues[f]],
     [f \in SourceFields \ {"insulation"} |-> AllValues[f]]}

Component(name, row, data) ==
    [component_name |-> name, phase |-> "Vapor", row_index |-> row,
     existing_data |-> data]

Equipment(number, pmt, row, components) ==
    [equipment_number |-> number, pmt_number |-> pmt, row_index |-> row,
     components |-> components]

\* the equipment map the batch runs on: read_masterfile's result
PipelineMap(pmt1, pmt2) ==
    <<Equipment("V-001", pmt1, 7,
                <<Component("Shell", 7, OldData), Component("Head", 8, NoneData)>>),
      Equipment("H-001", pmt2, 9, <<Component("Shell", 9, NoneData)>>)>>

\* what parse_response returns to extract_technical_data
ParseResults ==
    {EmptyDict,
     [components_data |-> <<>>],
     [components_data |-> <<CompData("Shell", AllValues)>>],
     [components_data |-> <<CompData("Shell", Scenario), CompData("Head", AllValues)>>]}

\* the equipment map update_equipment is applied to
MergeEquipment == <<"V-001", "H-001", "V-002", "H-002">>

MergeMap(data) ==
    [i \in 1..Len(MergeEquipment) |->
        Equipment(MergeEquipment[i], PmtP1, 5 + 2 * i,
                  <<Component("Shell", 5 + 2 * i, data),
                    Component("Head", 6 + 2 * i, data)>>)]

\* components_data lists: one entry under study, alone or next to another one
ContextEntries ==
    {CompData("Head", AllValues),
     CompData("Head", ScenarioPartial),
     [fluid |-> Water]}

ComponentsLists ==
    {<<CompData(n, fs)>> : n \in {"Shell", "Nozzle"}, fs \in FieldSets \cup PartialFieldSets}
    \cup {<<CompData("Shell", fs), c>> : fs \in BaseFields \cup PartialFieldSets,
                                        c \in ContextEntries}
    \cup {<<c, CompData("Shell", fs)>> : fs \in BaseFields \cup PartialFieldSets,
                                        c \in ContextEntries}

Item(number, data) == [equipment_number |-> number, data |-> data]

\* items of another equipment in the same extraction result
OtherItems(number) ==
    <<Item("X-999", [components_data |-> <<CompData("Shell", AllValues)>>]),
      Item(IF number = "V-001" THEN "V-002" ELSE "V-001",
           [components_data |-> <<CompData("Head", AllValues)>>]),
      Item(IF number = "V-001" THEN "V-002" ELSE "V-001", EmptyDict)>>

\* where the item under study stands in extracted_data.items()
Shapes == {"alone", "first", "last"}

\* an extraction result handed to update_equipment, as extracted_data.items()
ExtractionResult(number, components_list, shape, other) ==
    LET item == Item(number, [components_data |-> components_list])
    IN  CASE shape = "alone" -> <<item>>
          [] shape = "first" -> <<item, OtherItems(number)[other]>>
          [] shape = "last" -> <<OtherItems(number)[other], item>>

---------------------------------------------------------------------------
(* ExcelManager and NewWorkView: operations on a loaded equipment map       *)

\* Component.update_existing_data(updates) raises KeyError: a key of updates
\* is no key of existing_data
RaisesKeyError(existing_data, updates) ==
    DOMAIN updates \ DOMAIN existing_data # {}

\* Component.get_empty_data_fields(): the keys whose value is None or ''
get_empty_data_fields(existing_data) ==
    {k \in DOMAIN existing_data : existing_data[k] \in {None, EmptyStr}}

\* the map with existing_data of component c of equipment e replaced
WithExistingData(map, e, c, existing_data) ==
    [map EXCEPT ![e].components[c].existing_data = existing_data]

\* an update_component_data that lets the KeyError through
update_component_data_uncaught(map, equipment_number, component_name, updates) ==
    LET e == MapIndex(map, equipment_number)
        c == IF e = 0 THEN 0 ELSE get_component(map[e], component_name)
    IN  IF e = 0 \/ c = 0 THEN [raised |-> FALSE, ret |-> FALSE, map |-> map]
        ELSE [raised |-> RaisesKeyError(map[e].components[c].existing_data, updates),
              ret |-> TRUE,
              map |-> WithExistingData(map, e, c,
                         update_existing_data(map[e].components[c].existing_data,
                                              updates))]

\* ExcelManager.update_component_data
update_component_data(map, equipment_number, component_name, updates) ==
    LET e == MapIndex(map, equipment_number)
        c == IF e = 0 THEN 0 ELSE get_component(map[e], component_name)
    IN  IF e = 0 \/ c = 0 THEN [raised |-> FALSE, ret |-> FALSE, map |-> map]
        ELSE [raised |-> FALSE,
              ret |-> ~RaisesKeyError(map[e].components[c].existing_data, updates),
              map |-> WithExistingData(map, e, c,
                         update_existing_data(map[e].components[c].existing_data,
                                              updates))]

\* excel_manager.py:128-133, the defaults of the fields that are empty
FillUpdates(existing_data, default_values) ==
    [k \in get_empty_data_fields(existing_data) \cap DOMAIN default_values |->
        default_values[k]]

\* ExcelManager.fill_empty_cells
fill_empty_cells(map, equipment_number, component_name, default_values) ==
    LET e == MapIndex(map, equipment_number)
        c == IF e = 0 THEN 0 ELSE get_component(map[e], component_name)
    IN  IF e = 0 \/ c = 0 THEN [raised |-> FALSE, ret |-> FALSE, map |-> map]
        ELSE LET existing_data == map[e].components[c].existing_data
                 updates == FillUpdates(existing_data, default_values)
             IN  IF DOMAIN updates = {}
                 THEN [raised |-> FALSE, ret |-> FALSE, map |-> map]
                 ELSE [raised |-> RaisesKeyError(existing_data, updates),
                       ret |-> TRUE,
                       map |-> WithExistingData(map, e, c,
                                  update_existing_data(existing_data, updates))]

RECURSIVE NatStr(_)
\* str(n) of a natural number
NatStr(n) ==
    IF n < 10 THEN <<CharOrder[CodePoint("0") + n]>>
    ELSE NatStr(n \div 10) \o <<CharOrder[CodePoint("0") + (n % 10)]>>

RECURSIVE Pow10(_)
Pow10(e) == IF e = 0 THEN 1 ELSE 10 * Pow10(e - 1)

RECURSIVE ZeroPad(_, _)
ZeroPad(s, width) == IF Len(s) >= width THEN s ELSE ZeroPad(<<"0">> \o s, width)

\* str(value) of a cell value: 'None', the repr of a float, the string itself
Str(value) ==
    IF value = None THEN <<"N", "o", "n", "e">>
    ELSE IF value # <<>> /\ value[1] = "float"
    THEN LET m == IF value[2] < 0 THEN 0 - value[2] ELSE value[2]
             e == value[3]
         IN  (IF value[2] < 0 THEN <<"-">> ELSE <<>>)
             \o NatStr(m \div Pow10(e)) \o <<".">>
             \o (IF e = 0 THEN <<"0">> ELSE ZeroPad(NatStr(m % Pow10(e)), e))
    ELSE value

\* new_work.py:787-797, the keys of ui_updates
UIKeys ==
    {"fluid", "type", "spec", "grade", "insulation", "design_temp",
     "design_pressure", "operating_temp", "operating_pressure"}

\* new_work.py:807-811, the existing keys equal to ui_key ignoring case: the
\* keys of existing_data and of ui_updates are lower-case literals, on which
\* lower() changes nothing
MatchingKeys(existing_data, ui_key) ==
    {k \in DOMAIN existing_data : k = ui_key}

\* new_work.py:803-822, the updates built from the text boxes of one row
UIUpdates(existing_data, ui_updates) ==
    LET edited == {k \in DOMAIN ui_updates : ui_updates[k] # EmptyStr}
        changed == {k \in edited :
                      \/ MatchingKeys(existing_data, k) = {}
                      \/ Str(existing_data[k]) # ui_updates[k]}
    IN  [k \in changed |-> ui_updates[k]]

\* new_work.py:824-830, update_existing_data, and on KeyError every key of
\* updates is set in existing_data
UIApply(existing_data, updates) ==
    IF RaisesKeyError(existing_data, updates)
    THEN [k \in DOMAIN existing_data \cup DOMAIN updates |->
             IF k \in DOMAIN updates THEN updates[k] ELSE existing_data[k]]
    ELSE update_existing_data(existing_data, updates)

\* the index of the first component with this name, 0 when there is none
FirstComponent(equipment, parts) ==
    LET found == {i \in 1..Len(equipment.components) :
                     equipment.components[i].component_name = parts}
    IN  IF found = {} THEN 0 ELSE CHOOSE i \in found : \A j \in found : i <= j

\* NewWorkView._update_equipment_map_from_ui for one row of text boxes
\* (equipment_no, parts, ui_updates), with the changed equipment put back
\* into the map (new_work.py:656-660)
_update_equipment_map_from_ui(map, equipment_no, parts, ui_updates) ==
    LET e == MapIndex(map, equipment_no)
        c == IF e = 0 THEN 0 ELSE FirstComponent(map[e], parts)
    IN  IF e = 0 \/ c = 0 THEN map
        ELSE LET existing_data == map[e].components[c].existing_data
                 updates == UIUpdates(existing_data, ui_updates)
             IN  IF DOMAIN updates = {} THEN map
                 ELSE WithExistingData(map, e, c, UIApply(existing_data, updates))

---------------------------------------------------------------------------
(* ExcelManager: the Masterfile sheet, read_masterfile, save_to_excel       *)

\* excel_manager.py:27, the first row read_masterfile scans
FirstRow == 7

\* excel_manager.py:30, `current_row <= 50`
RowCeiling == 50

\* the columns of the sheet that the code touches
Columns ==
    {"A", "B", "C", "D", "E", "F", "G", "H", "I", "J", "K", "L", "M", "N", "O"}

\* read_masterfile swapping the spec and grade columns
ReadColumnsSwapped ==
    [fluid |-> "G", material_type |-> "H", spec |-> "J", grade |-> "I",
     insulation |-> "K", design_temp |-> "L", design_pressure |-> "M",
     operating_temp |-> "N", operating_pressure |-> "O"]

\* excel_manager.py:55-63, the column each existing_data key is read from
ReadColumns ==
    [fluid |-> "G", material_type |-> "H", spec |-> "I", grade |-> "J",
     insulation |-> "K", design_temp |-> "L", design_pressure |-> "M",
     operating_temp |-> "N", operating_pressure |-> "O"]

\* save_to_excel writing one column too far to the right
SaveColumnsShifted ==
    <<[column |-> "H", key |-> "fluid"],
      [column |-> "I", key |-> "material_type"],
      [column |-> "J", key |-> "spec"],
      [column |-> "K", key |-> "grade"],
      [column |-> "L", key |-> "insulation"],
      [column |-> "M", key |-> "design_temp"],
      [column |-> "N", key |-> "design_pressure"],
      [column |-> "O", key |-> "operating_temp"],
      [column |-> "O", key |-> "operating_pressure"]>>

\* excel_manager.py:190-198, the cells save_to_excel assigns, in order
SaveColumns ==
    <<[column |-> "G", key |-> "fluid"],
      [column |-> "H", key |-> "material_type"],
      [column |-> "I", key |-> "spec"],
      [column |-> "J", key |-> "grade"],
      [column |-> "K", key |-> "insulation"],
      [column |-> "L", key |-> "design_temp"],
      [column |-> "M", key |-> "design_pressure"],
      [column |-> "N", key |-> "operating_temp"],
      [column |-> "O", key |-> "operating_pressure"]>>

\* cell values of the equipment-number and component-name columns
V001 == <<"V", "-", "0", "0", "1">>
H001 == <<"H", "-", "0", "0", "1">>
ShellName == <<"S", "h", "e", "l", "l">>
HeadName == <<"H", "e", "a", "d">>
EquipmentNoHeader ==
    <<"E", "Q", "U", "I", "P", "M", "E", "N", "T", " ", "N", "O", ".">>
ComponentsHeader == <<"C", "O", "M", "P", "O", "N", "E", "N", "T", "S">>

\* the number of layout rows of a sheet
MaxSheetRows == 3

\* what a row of the sheet holds in columns B and E
RowKinds == {"blank", "header", "component", "equipment", "V-001", "H-001"}

\* what the technical columns of a filled row hold
FilledCells ==
    [G |-> OldData["fluid"], H |-> OldData["material_type"], I |-> OldData["spec"],
     J |-> OldData["grade"], K |-> OldData["insulation"],
     L |-> OldData["design_temp"], N |-> OldData["operating_temp"],
     O |-> OldData["operating_pressure"]]

\* the cells of row r of the given kind
RowCells(kind, r) ==
    [col \in Columns |->
        CASE col = "A" -> (IF kind = "blank" THEN None ELSE <<"float", r - 6, 0>>)
          [] col = "B" ->
               (CASE kind \in {"V-001", "equipment"} -> V001
                  [] kind = "H-001" -> H001
                  [] kind = "header" -> EquipmentNoHeader
                  [] OTHER -> None)
          [] col = "C" -> (IF kind \in {"V-001", "H-001", "equipment"} THEN PmtP1 ELSE None)
          [] col = "D" -> None
          [] col = "E" ->
               (CASE kind \in {"V-001", "H-001"} -> ShellName
                  [] kind = "component" -> HeadName
                  [] kind = "header" -> ComponentsHeader
                  [] OTHER -> None)
          [] col = "F" -> (IF kind = "blank" THEN None ELSE <<"G", "a", "s">>)
          [] col = "M" -> (IF kind = "blank" THEN None ELSE <<"float", r, 0>>)
          [] OTHER ->
               (CASE kind \in {"blank", "component"} -> None
                  [] OTHER -> FilledCells[col])]

\* rows 1 to 6: titles and the column headers
HeaderRows == [r \in 1..(FirstRow - 1) |-> RowCells("header", r)]

\* a sheet whose rows from FirstRow on are of the given kinds
SheetOf(kinds) ==
    HeaderRows \o [i \in 1..Len(kinds) |-> RowCells(kinds[i], FirstRow - 1 + i)]

\* layouts that reach past the row ceiling: rows 49, 50 | 51, 52
CeilingLayouts ==
    {<<"V-001", "component", "component", "H-001">>,
     <<"equipment", "blank", "component", "blank">>,
     <<"H-001", "V-001", "V-001", "component">>}

BlankRows(n) == [i \in 1..n |-> "blank"]

Sheets ==
    {SheetOf(kinds) : kinds \in [1..MaxSheetRows -> RowKinds]}
    \cup {SheetOf(BlankRows(RowCeiling - FirstRow - 1) \o kinds) : kinds \in CeilingLayouts}

\* ExcelManager._get_cell_value(ws, cell_ref)
_get_cell_value(sheet, column, row) ==
    IF row \in DOMAIN sheet THEN sheet[row][column] ELSE None

\* `x and x not in [literal, '']`
IsEntry(value, literal) ==
    /\ value # None
    /\ value # EmptyStr
    /\ value # literal

\* a list of equipment instead of a dict keyed by equipment number
DictAppend(map, equipment) == Append(map, equipment)

\* equipment_map[equipment.equipment_number] = equipment
DictAssign(map, equipment) ==
    LET i == MapIndex(map, equipment.equipment_number)
    IN  IF i = 0 THEN Append(map, equipment) ELSE [map EXCEPT ![i] = equipment]

\* a flush that takes an equipment without components too
FlushAny(map, current) ==
    IF current # <<>> THEN DictAssign(map, current[1]) ELSE map

\* excel_manager.py:36-38 and 72-73, the current equipment goes into the map
Flush(map, current) ==
    IF current # <<>> /\ current[1].components # <<>>
    THEN DictAssign(map, current[1])
    ELSE map

\* excel_manager.py:50-65, the Component of a row
ComponentOfRow(sheet, row) ==
    [component_name |-> _get_cell_value(sheet, "E", row),
     phase |-> _get_cell_value(sheet, "F", row),
     row_index |-> row,
     existing_data |->
        [k \in DOMAIN ReadColumns |-> _get_cell_value(sheet, ReadColumns[k], row)]]

\* Component.get_existing_data_value(key)
get_existing_data_value(existing_data, key) ==
    IF key \in DOMAIN existing_data THEN existing_data[key] ELSE None

RECURSIVE WriteCells(_, _, _, _)
\* excel_manager.py:190-198, ws[f'{column}{row}'] = value, cell after cell
WriteCells(sheet, row, existing_data, cells) ==
    IF cells = <<>> THEN sheet
    ELSE WriteCells(
             [sheet EXCEPT ![row][Head(cells).column] =
                 get_existing_data_value(existing_data, Head(cells).key)],
             row, existing_data, Tail(cells))

RECURSIVE WriteComponents(_, _)
\* excel_manager.py:186-198, the components of one equipment
WriteComponents(sheet, components) ==
    IF components = <<>> THEN sheet
    ELSE WriteComponents(
             IF Head(components).row_index # 0
             THEN WriteCells(sheet, Head(components).row_index,
                             Head(components).existing_data, SaveColumns)
             ELSE sheet,
             Tail(components))

RECURSIVE WriteEquipment(_, _)
\* excel_manager.py:185-198, `for equipment in self.equipment_map.values()`
WriteEquipment(sheet, map) ==
    IF map = <<>> THEN sheet
    ELSE WriteEquipment(WriteComponents(sheet, Head(map).components), Tail(map))

---------------------------------------------------------------------------
(* ExcelManager.save_to_excel: the output path                             *)

\* excel_manager.py:17, "src\output_files" (\o is no escape sequence)
default_path ==
    <<"s", "r", "c", "\\", "o", "u", "t", "p", "u", "t", "_", "f", "i", "l", "e", "s">>

\* the platforms os.path is implemented for
Platforms == {"posix", "nt"}

\* os.sep
Sep(platform) == IF platform = "nt" THEN "\\" ELSE "/"

\* the characters os.path takes for a separator (os.sep and os.altsep)
Seps(platform) == IF platform = "nt" THEN {"\\", "/"} ELSE {"/"}

\* p.rfind(c) for c in a set of characters, counted from 1; 0 when absent
RFind(p, chars) ==
    LET found == {j \in 1..Len(p) : p[j] \in chars}
    IN  IF found = {} THEN 0 ELSE CHOOSE j \in found : \A k \in found : k <= j

\* os.path.splitext(p): the extension starts at the last dot of the last
\* component, unless only dots precede it there
splitext(p, platform) ==
    LET sepIndex == RFind(p, Seps(platform))
        dotIndex == RFind(p, {"."})
    IN  IF /\ dotIndex > sepIndex
           /\ \E j \in (sepIndex + 1)..(dotIndex - 1) : p[j] # "."
        THEN <<SubSeq(p, 1, dotIndex - 1), SubSeq(p, dotIndex, Len(p))>>
        ELSE <<p, <<>>>>

\* os.path.split(p)[1]: what follows the last separator (no drive in p)
split_tail(p, platform) ==
    SubSeq(p, RFind(p, Seps(platform)) + 1, Len(p))

\* os.path.join(a, b) for a b that starts with no separator
join2(a, b, platform) ==
    IF a = <<>> \/ a[Len(a)] \in Seps(platform)
    THEN a \o b
    ELSE a \o <<Sep(platform)>> \o b

\* os.path.join(a, b, c)
join(a, b, c, platform) == join2(join2(a, b, platform), c, platform)

\* "_modified"
Modified == <<"_", "m", "o", "d", "i", "f", "i", "e", "d">>

\* the literal "default/excel"
DefaultExcel ==
    <<"d", "e", "f", "a", "u", "l", "t", "/", "e", "x", "c", "e", "l">>

\* f"user_{user_id}/excel"
UserExcel(id) ==
    <<"u", "s", "e", "r", "_">> \o NatStr(id) \o <<"/", "e", "x", "c", "e", "l">>

\* an output file name that is the source's file name
OutputNameSame(user_id, base_name, ext) == base_name \o ext

\* excel_manager.py:206 and 212, the f-string of the output file name;
\* user_id is <<>> for None and <<id>> for an int
OutputName(user_id, base_name, ext) ==
    IF user_id = <<>>
    THEN base_name \o Modified \o ext
    ELSE NatStr(user_id[1]) \o <<"_">> \o base_name \o Modified \o ext

\* excel_manager.py:201-212, the output path of save_to_excel
OutputPath(source, user_id, platform) ==
    LET parts == splitext(source, platform)
        base_name == split_tail(parts[1], platform)
    IN  join(default_path,
             IF user_id = <<>> THEN DefaultExcel ELSE UserExcel(user_id[1]),
             OutputName(user_id, base_name, parts[2]),
             platform)

\* the steps of save_to_excel that can fail: self.wb['Masterfile'], a cell
\* assignment, os.makedirs, self.wb.save
SaveFailures == {"none", "sheet", "cell", "makedirs", "save"}

\* a save_to_excel without its try/except
save_to_excel_uncaught(sheet, map, source, user_id, platform, failure, k) ==
    [raised |-> failure # "none",
     ret |-> failure = "none",
     ws |-> IF failure = "sheet" THEN sheet
            ELSE IF failure = "cell" THEN WriteEquipment(sheet, SubSeq(map, 1, k - 1))
            ELSE WriteEquipment(sheet, map),
     output_path |-> IF failure \in {"none", "save"}
                     THEN OutputPath(source, user_id, platform)
                     ELSE <<>>]

\* ExcelManager.save_to_excel(user_id): whether it raised, what it returned,
\* the sheet in memory and the path handed to wb.save. A failing cell
\* assignment is the first one of the k-th equipment.
save_to_excel(sheet, map, source, user_id, platform, failure, k) ==
    [raised |-> FALSE,
     ret |-> failure = "none",
     ws |-> IF failure = "sheet" THEN sheet
            ELSE IF failure = "cell" THEN WriteEquipment(sheet, SubSeq(map, 1, k - 1))
            ELSE WriteEquipment(sheet, map),
     output_path |-> IF failure \in {"none", "save"}
                     THEN OutputPath(source, user_id, platform)
                     ELSE <<>>]

\* source workbooks: one outside the output tree, one in the shared output
\* directory as either platform spells it
FileOutside == <<"C", "S", "\\", "M", "F", ".", "x", "l", "s", "x">>
FileInDefault(platform) ==
    join(default_path, DefaultExcel, <<"M", "F", ".", "x", "l", "s", "x">>, platform)
FilePaths == {FileOutside} \cup {FileInDefault(p) : p \in Platforms}

\* the user_id argument: None or an int
UserIds == {<<>>, <<0>>, <<7>>}

\* the layouts of the workbooks that are saved from every path
SaveSheets ==
    {SheetOf(<<"V-001", "component", "H-001">>),
     SheetOf(<<"V-001", "H-001", "component">>),
     SheetOf(<<"blank", "header">>)}

\* arguments of update_component_data between reading and saving
SheetTargets ==
    {<<V001, ShellName>>, <<V001, HeadName>>, <<H001, ShellName>>, <<H001, HeadName>>}

---------------------------------------------------------------------------
(* MasterfileExtractor._build_prompt                                        *)

\* ExtractionRules.FIELD_INSTRUCTIONS: the equipment that has field instructions
FIELD_INSTRUCTIONS == {"V-001", "V-002", "H-002"}

\* ExtractionRules.INSULATION_CONFIGS: the equipment that has an insulation
\* configuration, which is every equipment of the other two tables
INSULATION_CONFIGS == INSULATION_ONLY_EQUIPMENT \cup FIELD_INSTRUCTIONS

\* the fields a prompt asks for
InsulationField == {"insulation"}
OperatingFields == {"operating_temperature", "operating_pressure"}
FullFields ==
    {"fluid", "spec", "grade", "insulation", "design_temperature",
     "design_pressure"} \cup OperatingFields

\* PromptBuilder.build_insulation_only_prompt
build_insulation_only_prompt(equipment_number) ==
    [variant |-> "insulation_only", equipment_number |-> equipment_number,
     fields |-> InsulationField, description |-> ""]

\* PromptBuilder.build_full_extraction_prompt
build_full_extraction_prompt(equipment_number, skip_operation_pressure_temp) ==
    [variant |-> "full", equipment_number |-> equipment_number,
     fields |-> IF skip_operation_pressure_temp THEN FullFields \ OperatingFields
                ELSE FullFields,
     description |-> ""]

\* masterfile_extractor.py:82, the f-string
default_prompt(equipment_number, equipment_description) ==
    [variant |-> "default", equipment_number |-> equipment_number,
     fields |-> {}, description |-> equipment_description]

\* no prompt: INSULATION_CONFIGS[equipment_number] raised KeyError
NoPrompt(equipment_number) ==
    [variant |-> "KeyError", equipment_number |-> equipment_number,
     fields |-> {}, description |-> ""]

\* a _build_prompt that looks at the field instructions first
_build_prompt_fields_first(equipment_number, equipment_description) ==
    IF equipment_number \in FIELD_INSTRUCTIONS
    THEN build_full_extraction_prompt(
             equipment_number,
             equipment_number \in SKIP_OPERATING_PRESSURE_TEMPERATURE)
    ELSE IF equipment_number \in INSULATION_ONLY_EQUIPMENT
    THEN build_insulation_only_prompt(equipment_number)
    ELSE default_prompt(equipment_number, equipment_description)

\* MasterfileExtractor._build_prompt(equipment_number, equipment)
_build_prompt(equipment_number, equipment_description) ==
    IF equipment_number \in INSULATION_ONLY_EQUIPMENT
    THEN IF equipment_number \in INSULATION_CONFIGS
         THEN build_insulation_only_prompt(equipment_number)
         ELSE NoPrompt(equipment_number)
    ELSE IF equipment_number \in FIELD_INSTRUCTIONS
    THEN IF equipment_number \in INSULATION_CONFIGS
         THEN build_full_extraction_prompt(
                  equipment_number,
                  equipment_number \in SKIP_OPERATING_PRESSURE_TEMPERATURE)
         ELSE NoPrompt(equipment_number)
    ELSE default_prompt(equipment_number, equipment_description)

\* the equipment prompts are built for: in one table, in several, in none
PromptNumbers == {"V-001", "V-002", "H-001", "H-002", "E-009"}

\* Equipment.equipment_description
Descriptions == {"Separator", "Heater"}

\* the number of prompts built in a row
MaxPrompts == 2

\* the number of extraction threads that are started
MaxThreads == 2

\* NewWorkView.selected_files, each file by the equipment number that
\* get_equipment_number_from_image_path takes from its path
selected_files == <<"V-001", "H-001">>

\* what read_masterfile returns to the extraction thread
LoadedMap == PipelineMap(PmtP1, PmtX9)

\* what the extraction of one equipment yields
ThreadResults ==
    {EmptyDict,
     [components_data |-> <<CompData("Shell", Scenario), CompData("Head", AllValues)>>],
     [components_data |-> <<CompData("Shell", AllValues), CompData("Head", Scenario)>>]}

\* arguments of the operations on a loaded map
MaxOps == 2

OpTargets ==
    {<<"V-001", "Shell">>, <<"V-001", "Head">>, <<"H-001", "Shell">>,
     <<"X-999", "Shell">>, <<"V-001", "Nozzle">>}

Red == <<"r", "e", "d">>

\* updates dictionaries: recognized keys, an unrecognized key, both
UpdateSets ==
    {[k \in {"fluid"} |-> Water],
     [k \in {"colour"} |-> Red],
     [k \in {"fluid", "colour", "design_temp"} |->
        CASE k = "fluid" -> Water
          [] k = "colour" -> Red
          [] k = "design_temp" -> <<"float", 150, 0>>]}

DefaultValueSets ==
    {[k \in {"fluid", "insulation"} |-> IF k = "fluid" THEN Water ELSE InsNo],
     [k \in {"grade", "colour"} |-> Red]}

\* the text boxes of one row: '' where the user typed nothing
UIBlank == [k \in UIKeys |-> EmptyStr]

UIRows ==
    {[UIBlank EXCEPT !["fluid"] = Water],
     [UIBlank EXCEPT !["type"] = <<"C", "S">>],
     [UIBlank EXCEPT !["fluid"] = <<"O", "i", "l">>,
                     !["design_temp"] = <<"1", "0", "0", ".", "0">>],
     [UIBlank EXCEPT !["type"] = <<"S", "S">>, !["spec"] = A516]}

\* extraction results merged into a loaded map
OpResults ==
    {<<Item("V-001", [components_data |-> <<CompData("Shell", AllValues)>>])>>,
     <<Item("H-001", [components_data |-> <<CompData("Shell", Scenario)>>])>>}

---------------------------------------------------------------------------
(* State machine                                                            *)

Idle ==
    /\ eq_idx = 1
    /\ image_files = <<>>
    /\ img_idx = 1
    /\ attempt = 0
    /\ calls = 0
    /\ sleeps = <<>>
    /\ outcomes = <<>>
    /\ technical_data = EmptyDict
    /\ tried = <<>>

\* no workbook is involved
SheetIdle ==
    /\ ws = <<>>
    /\ pre_ws = <<>>
    /\ current_row = 0
    /\ current_equipment = <<>>
    /\ ops = <<>>
    /\ file_path = <<>>
    /\ os_name = "posix"
    /\ saved = <<>>

\* no extraction was started from the New Work view
UIIdle ==
    /\ threads = <<>>
    /\ overlay = "hidden"

\* process_and_update_equipment(equipment_map) is called on a parsed masterfile
Init ==
    /\ pc = "find"
    /\ equipment_map \in {PipelineMap(p1, p2) : p1 \in PmtValues, p2 \in PmtValues}
    /\ pre_map = equipment_map
    /\ extracted_data = <<>>
    /\ Idle
    /\ SheetIdle
    /\ UIIdle

\* update_equipment(equipment_map, extracted_data) is called
InitMerge ==
    /\ pc = "update"
    /\ equipment_map \in {MergeMap(OldData), MergeMap(NoneData)}
    /\ pre_map = equipment_map
    /\ \E i \in 1..Len(MergeEquipment), cl \in ComponentsLists, shape \in Shapes,
          other \in 1..Len(OtherItems("V-001")) :
          /\ shape = "alone" => other = 1
          /\ extracted_data = ExtractionResult(MergeEquipment[i], cl, shape, other)
    /\ Idle
    /\ SheetIdle
    /\ UIIdle

extraction_vars ==
    <<eq_idx, image_files, img_idx, attempt, calls, sleeps, outcomes,
      technical_data, tried>>

\* the state of ExcelManager and of the operations on a loaded map
sheet_vars == <<ws, pre_ws, current_row, current_equipment, ops, file_path, os_name, saved>>

\* a batch that merges as soon as one equipment has been processed
NextEquipmentMergesEarly ==
    /\ eq_idx' = eq_idx + 1
    /\ pc' = "update"

\* masterfile_extractor.py:98-101, the batch goes on to the next equipment
NextEquipment ==
    /\ eq_idx' = eq_idx + 1
    /\ pc' = IF eq_idx + 1 > Len(equipment_map) THEN "update" ELSE "find"

\* extract_technical_data(image_file, equipment) is entered
EnterExtract ==
    /\ attempt' = 0
    /\ calls' = 0
    /\ sleeps' = <<>>
    /\ outcomes' = <<>>
    /\ pc' = "attempt"

\* _process_single_equipment up to its first extract_technical_data call
FindImages ==
    /\ pc = "find"
    /\ LET pmt_number == equipment_map[eq_idx].pmt_number
       IN  IF pmt_number = None
           THEN \* None has no replace(): AttributeError leaves the batch
                /\ pc' = "batch_raised"
                /\ UNCHANGED <<extraction_vars>>
           ELSE LET files == find_equipment_images(pmt_number)
                IN  /\ image_files' = files
                    /\ img_idx' = 1
                    /\ tried' = <<>>
                    /\ IF files = <<>>
                       THEN /\ NextEquipment
                            /\ UNCHANGED <<attempt, calls, sleeps, outcomes>>
                       ELSE /\ EnterExtract
                            /\ UNCHANGED eq_idx
                    /\ UNCHANGED technical_data
    /\ UNCHANGED <<equipment_map, pre_map, extracted_data, sheet_vars, ui_vars>>

\* extract_technical_data returns `result`
Return(result) ==
    /\ technical_data' = result
    /\ pc' = "returned"
    /\ UNCHANGED attempt

\* masterfile_extractor.py:37-39, the image file is gone
AttemptFileMissing ==
    /\ pc = "attempt"
    /\ outcomes' = Append(outcomes, [kind |-> "missing", msg |-> EmptyStr])
    /\ Return(EmptyDict)
    /\ UNCHANGED <<calls, sleeps>>
    /\ UNCHANGED <<equipment_map, pre_map, extracted_data, eq_idx, image_files,
                   img_idx, tried, sheet_vars, ui_vars>>

\* masterfile_extractor.py:58-65, an attempt ends with exception `msg`
HandleException(msg) ==
    LET r == _should_retry(msg, attempt)
    IN  /\ sleeps' = sleeps \o r.slept
        /\ IF r.retry
           THEN IF attempt + 1 < max_retries
                THEN /\ attempt' = attempt + 1
                     /\ UNCHANGED <<pc, technical_data>>
                ELSE Return(EmptyDict)
           ELSE Return(EmptyDict)

\* compress_image_for_api raises before the service is called
AttemptCompressRaises ==
    /\ pc = "attempt"
    /\ \E msg \in CompressErrors :
          /\ outcomes' = Append(outcomes, [kind |-> "compress", msg |-> msg])
          /\ HandleException(msg)
    /\ UNCHANGED calls
    /\ UNCHANGED <<equipment_map, pre_map, extracted_data, eq_idx, image_files,
                   img_idx, tried, sheet_vars, ui_vars>>

\* client.messages.create raises
AttemptServiceRaises ==
    /\ pc = "attempt"
    /\ \E msg \in ServiceErrors :
          /\ outcomes' = Append(outcomes, [kind |-> "service", msg |-> msg])
          /\ HandleException(msg)
    /\ calls' = calls + 1
    /\ UNCHANGED <<equipment_map, pre_map, extracted_data, eq_idx, image_files,
                   img_idx, tried, sheet_vars, ui_vars>>

\* client.messages.create answers and parse_response returns
AttemptSucceeds ==
    /\ pc = "attempt"
    /\ \E result \in ParseResults :
          /\ outcomes' = Append(outcomes, [kind |-> "ok", msg |-> EmptyStr])
          /\ Return(result)
    /\ calls' = calls + 1
    /\ UNCHANGED sleeps
    /\ UNCHANGED <<equipment_map, pre_map, extracted_data, eq_idx, image_files,
                   img_idx, tried, sheet_vars, ui_vars>>

\* a test that takes any non-empty dict for a result
HasAnyData(data) == DOMAIN data # {}

\* masterfile_extractor.py:116, `technical_data and technical_data.get('components_data')`
HasComponentData(data) ==
    /\ DOMAIN data # {}
    /\ "components_data" \in DOMAIN data
    /\ data["components_data"] # <<>>

\* masterfile_extractor.py:114-123 and 99, what follows an extract_technical_data call
ProcessResult ==
    /\ pc = "returned"
    /\ tried' = Append(tried, [image |-> image_files[img_idx], data |-> technical_data])
    /\ IF HasComponentData(technical_data)
       THEN /\ extracted_data' =
                  Append(extracted_data,
                         Item(equipment_map[eq_idx].equipment_number, technical_data))
            /\ NextEquipment
            /\ UNCHANGED <<img_idx, attempt, calls, sleeps, outcomes>>
       ELSE IF img_idx < Len(image_files)
            THEN /\ img_idx' = img_idx + 1
                 /\ EnterExtract
                 /\ UNCHANGED <<extracted_data, eq_idx>>
            ELSE /\ NextEquipment
                 /\ UNCHANGED <<extracted_data, img_idx, attempt, calls, sleeps,
                                outcomes>>
    /\ UNCHANGED <<equipment_map, pre_map, image_files, technical_data, sheet_vars, ui_vars>>

\* DataUpdater.update_equipment(equipment_map, extracted_data)
UpdateEquipment ==
    /\ pc = "update"
    /\ LET r == update_equipment(equipment_map, extracted_data)
       IN  /\ equipment_map' = r.map
           /\ pc' = IF r.raised THEN "update_raised" ELSE "done"
    /\ UNCHANGED <<pre_map, extracted_data, extraction_vars, sheet_vars, ui_vars>>

\* update_equipment is called once more with the same extraction result
UpdateEquipmentAgain ==
    /\ pc \in {"done", "update_raised"}
    /\ LET r == update_equipment(equipment_map, extracted_data)
       IN  /\ equipment_map' = r.map
           /\ pc' = IF r.raised THEN "again_raised" ELSE "again"
    /\ UNCHANGED <<pre_map, extracted_data, extraction_vars, sheet_vars, ui_vars>>

Next ==
    \/ FindImages
    \/ AttemptFileMissing
    \/ AttemptCompressRaises
    \/ AttemptServiceRaises
    \/ AttemptSucceeds
    \/ ProcessResult
    \/ UpdateEquipment

\* process_and_update_equipment: extraction of every equipment, then the merge
Spec == Init /\ [][Next]_vars

\* update_equipment on its own, for every extraction result
\* a map was loaded by read_masterfile; operations are applied to it
InitOps ==
    /\ pc = "loaded"
    /\ equipment_map = PipelineMap(PmtP1, PmtX9)
    /\ pre_map = equipment_map
    /\ extracted_data = <<>>
    /\ Idle
    /\ SheetIdle
    /\ UIIdle

OpRecord(op, number, name, updates, ret) ==
    [op |-> op, number |-> number, name |-> name, updates |-> updates, ret |-> ret]

\* the existing_data the operation finds for (number, name), {} when none
TargetData(number, name) ==
    LET e == MapIndex(equipment_map, number)
        c == IF e = 0 THEN 0 ELSE get_component(equipment_map[e], name)
    IN  IF e = 0 \/ c = 0 THEN EmptyDict
        ELSE equipment_map[e].components[c].existing_data

\* one more operation is applied to the map
OpStep(map, raised, record) ==
    /\ equipment_map' = map
    /\ pre_map' = equipment_map
    /\ ops' = Append(ops, record)
    /\ pc' = IF raised THEN "op_raised" ELSE "loaded"
    /\ UNCHANGED <<extracted_data, extraction_vars, ws, pre_ws, current_row,
                   current_equipment, file_path, os_name, saved, ui_vars>>

\* ExcelManager.update_component_data(equipment_number, component_name, updates)
OpUpdateComponentData ==
    /\ pc = "loaded"
    /\ Len(ops) < MaxOps
    /\ \E target \in OpTargets, updates \in UpdateSets :
          LET r == update_component_data(equipment_map, target[1], target[2], updates)
          IN  OpStep(r.map, r.raised,
                     OpRecord("update_component_data", target[1], target[2],
                              updates, r.ret))

\* ExcelManager.fill_empty_cells(equipment_number, component_name, default_values)
OpFillEmptyCells ==
    /\ pc = "loaded"
    /\ Len(ops) < MaxOps
    /\ \E target \in OpTargets, default_values \in DefaultValueSets :
          LET r == fill_empty_cells(equipment_map, target[1], target[2], default_values)
          IN  OpStep(r.map, r.raised,
                     OpRecord("fill_empty_cells", target[1], target[2],
                              FillUpdates(TargetData(target[1], target[2]),
                                          default_values),
                              r.ret))

\* NewWorkView._update_equipment_map_from_ui: the user edited one row
OpUIEdit ==
    /\ pc = "loaded"
    /\ Len(ops) < MaxOps
    /\ \E target \in OpTargets, ui_updates \in UIRows :
          OpStep(_update_equipment_map_from_ui(equipment_map, target[1], target[2],
                                               ui_updates),
                 FALSE,
                 OpRecord("ui_edit", target[1], target[2],
                          UIUpdates(TargetData(target[1], target[2]), ui_updates),
                          TRUE))

\* DataUpdater.update_equipment on the loaded map
OpMerge ==
    /\ pc = "loaded"
    /\ Len(ops) < MaxOps
    /\ \E result \in OpResults :
          LET r == update_equipment(equipment_map, result)
          IN  OpStep(r.map, r.raised,
                     OpRecord("merge", result[1].equipment_number, "", EmptyDict,
                              ~r.raised))

NextOps ==
    \/ OpUpdateComponentData
    \/ OpFillEmptyCells
    \/ OpUIEdit
    \/ OpMerge

\* ExcelManager(file_path): the workbook is loaded, read_masterfile is entered
InitWorkbook(sheets, paths, platforms) ==
    /\ pc = "scan"
    /\ ws \in sheets
    /\ pre_ws = ws
    /\ current_row = FirstRow
    /\ current_equipment = <<>>
    /\ ops = <<>>
    /\ file_path \in paths
    /\ os_name \in platforms
    /\ saved = <<>>
    /\ UIIdle
    /\ equipment_map = <<>>
    /\ pre_map = <<>>
    /\ extracted_data = <<>>
    /\ Idle

\* every sheet layout, read from one workbook file
InitSheet == InitWorkbook(Sheets, {FileOutside}, {"posix"})

\* a few layouts, read from every workbook file on either platform
InitSave == InitWorkbook(SaveSheets, FilePaths, Platforms)

\* excel_manager.py:30, `current_row <= ws.max_row and current_row <= 50`
Scanning ==
    /\ current_row <= Len(ws)
    /\ current_row <= RowCeiling

\* excel_manager.py:30-69, one row of the scan
ScanRow ==
    /\ pc = "scan"
    /\ Scanning
    /\ LET equipment_number == _get_cell_value(ws, "B", current_row)
           component_name == _get_cell_value(ws, "E", current_row)
           starts == IsEntry(equipment_number, EquipmentNoHeader)
           opened == IF starts
                     THEN <<[equipment_number |-> equipment_number,
                             pmt_number |-> _get_cell_value(ws, "C", current_row),
                             row_index |-> current_row,
                             components |-> <<>>]>>
                     ELSE current_equipment
       IN  /\ equipment_map' =
                 IF starts THEN Flush(equipment_map, current_equipment)
                 ELSE equipment_map
           /\ current_equipment' =
                 IF opened # <<>> /\ IsEntry(component_name, ComponentsHeader)
                 THEN <<[opened[1] EXCEPT !.components =
                            Append(@, ComponentOfRow(ws, current_row))]>>
                 ELSE opened
    /\ current_row' = current_row + 1
    /\ UNCHANGED <<pc, pre_map, extracted_data, extraction_vars, ws, pre_ws, ops,
                   file_path, os_name, saved, ui_vars>>

\* excel_manager.py:71-78, the scan is over: the last equipment is added
FinishScan ==
    /\ pc = "scan"
    /\ ~Scanning
    /\ equipment_map' = Flush(equipment_map, current_equipment)
    /\ pre_map' = equipment_map'
    /\ pc' = "read"
    /\ UNCHANGED <<extracted_data, extraction_vars, ws, pre_ws, current_row,
                   current_equipment, ops, file_path, os_name, saved, ui_vars>>

\* excel_manager.py:260-264, update_component_data between reading and saving
UpdateBeforeSave ==
    /\ pc = "read"
    /\ \E target \in SheetTargets, updates \in UpdateSets :
          LET r == update_component_data(equipment_map, target[1], target[2], updates)
          IN  /\ equipment_map' = r.map
              /\ ops' = Append(ops, OpRecord("update_component_data", target[1],
                                             target[2], updates, r.ret))
              /\ pc' = IF r.raised THEN "op_raised" ELSE "updated"
    /\ UNCHANGED <<pre_map, extracted_data, extraction_vars, ws, pre_ws, current_row,
                   current_equipment, file_path, os_name, saved, ui_vars>>

\* what a save_to_excel call leaves behind
SaveStep(user_id, failure, r) ==
    /\ ws' = r.ws
    /\ saved' = <<[user_id |-> user_id, failure |-> failure, ret |-> r.ret,
                   output_path |-> r.output_path]>>
    /\ pc' = IF r.raised THEN "save_raised"
             ELSE IF r.ret THEN "saved" ELSE "save_failed"
    /\ UNCHANGED <<equipment_map, pre_map, extracted_data, extraction_vars, pre_ws,
                   current_row, current_equipment, ops, file_path, os_name, ui_vars>>

\* ExcelManager.save_to_excel(user_id), every step of it succeeds
SaveToExcel ==
    /\ pc \in {"read", "updated"}
    /\ \E user_id \in UserIds :
          SaveStep(user_id, "none",
                   save_to_excel(ws, equipment_map, file_path, user_id, os_name,
                                 "none", Len(equipment_map) + 1))

\* ExcelManager.save_to_excel(user_id), one of its steps fails
SaveToExcelFails ==
    /\ pc \in {"read", "updated"}
    /\ \E user_id \in UserIds, failure \in SaveFailures \ {"none"},
          k \in 1..(Len(equipment_map) + 1) :
          /\ IF failure = "cell" THEN k <= Len(equipment_map)
                                 ELSE k = Len(equipment_map) + 1
          /\ SaveStep(user_id, failure,
                      save_to_excel(ws, equipment_map, file_path, user_id, os_name,
                                    failure, k))

NextSheet ==
    \/ ScanRow
    \/ FinishScan
    \/ UpdateBeforeSave
    \/ SaveToExcel

\* the New Work view is shown, files are selected
InitThreads ==
    /\ pc = "ui"
    /\ equipment_map = <<>>
    /\ pre_map = <<>>
    /\ extracted_data = <<>>
    /\ Idle
    /\ SheetIdle
    /\ UIIdle

\* what every action of the New Work view leaves alone
ThreadFrame ==
    UNCHANGED <<pc, pre_map, extracted_data, extraction_vars, sheet_vars>>

\* new_work.py:479-490 and 577-578, a click on Start Extraction: the overlay
\* is created and a thread is started. Nothing here looks at a running thread;
\* the click arrives as long as the overlay does not lie over the button.
StartExtraction ==
    /\ overlay # "mapped"
    /\ Len(threads) < MaxThreads
    /\ selected_files # <<>>
    /\ overlay' = "requested"
    /\ threads' = Append(threads, [pc |-> "load", file |-> 1, comp |-> 1,
                                   technical_data |-> EmptyDict])
    /\ UNCHANGED equipment_map
    /\ ThreadFrame

\* the window system maps the overlay that show_loading placed
MapOverlay ==
    /\ overlay = "requested"
    /\ overlay' = "mapped"
    /\ UNCHANGED <<threads, equipment_map>>
    /\ ThreadFrame

\* where thread t goes on after the file it is at
AfterFile(t) ==
    IF threads[t].file < Len(selected_files)
    THEN [threads[t] EXCEPT !.pc = "check", !.file = @ + 1, !.comp = 1,
                            !.technical_data = EmptyDict]
    ELSE [threads[t] EXCEPT !.pc = "finish", !.comp = 1,
                            !.technical_data = EmptyDict]

\* new_work.py:502-506, self.equipment_map = self.excel_manager.read_masterfile()
ThreadLoad(t) ==
    /\ threads[t].pc = "load"
    /\ equipment_map' = LoadedMap
    /\ threads' = [threads EXCEPT ![t].pc = "check"]
    /\ UNCHANGED overlay
    /\ ThreadFrame

\* new_work.py:540-548 and 555-557, `if equipment_number in self.equipment_map`
ThreadCheck(t) ==
    /\ threads[t].pc = "check"
    /\ threads' =
          [threads EXCEPT ![t] =
              IF MapIndex(equipment_map, selected_files[threads[t].file]) # 0
              THEN [@ EXCEPT !.pc = "extract"]
              ELSE AfterFile(t)]
    /\ UNCHANGED <<overlay, equipment_map>>
    /\ ThreadFrame

\* new_work.py:550, process_and_update_specific_equipment: the extraction
ThreadExtract(t) ==
    /\ threads[t].pc = "extract"
    /\ \E result \in ThreadResults :
          threads' =
              [threads EXCEPT ![t] =
                  IF HasComponentData(result)
                  THEN [@ EXCEPT !.pc = "merge", !.comp = 1, !.technical_data = result]
                  ELSE AfterFile(t)]
    /\ UNCHANGED <<overlay, equipment_map>>
    /\ ThreadFrame

\* new_work.py:550, process_and_update_specific_equipment: the merge of one
\* comp_data into self.equipment_map, then l.553-554 after the last one
ThreadMerge(t) ==
    /\ threads[t].pc = "merge"
    /\ LET number == selected_files[threads[t].file]
           i == MapIndex(equipment_map, number)
           components_data == threads[t].technical_data["components_data"]
           r == _update_component(equipment_map[i], components_data[threads[t].comp],
                                  number)
       IN  /\ i # 0
           /\ equipment_map' = [equipment_map EXCEPT ![i] = r.equipment]
           /\ threads' =
                 [threads EXCEPT ![t] =
                     IF r.raised THEN [@ EXCEPT !.pc = "raised"]
                     ELSE IF threads[t].comp < Len(components_data)
                     THEN [@ EXCEPT !.comp = @ + 1]
                     ELSE AfterFile(t)]
    /\ UNCHANGED overlay
    /\ ThreadFrame

\* new_work.py:562-569, the thread ends and has the overlay hidden
ThreadFinish(t) ==
    /\ threads[t].pc = "finish"
    /\ threads' = [threads EXCEPT ![t].pc = "done"]
    /\ overlay' = "hidden"
    /\ UNCHANGED equipment_map
    /\ ThreadFrame

\* the view's main thread and the extraction threads, interleaved
NextThreads ==
    \/ StartExtraction
    \/ MapOverlay
    \/ \E t \in 1..Len(threads) : ThreadLoad(t)
    \/ \E t \in 1..Len(threads) : ThreadCheck(t)
    \/ \E t \in 1..Len(threads) : ThreadExtract(t)
    \/ \E t \in 1..Len(threads) : ThreadMerge(t)
    \/ \E t \in 1..Len(threads) : ThreadFinish(t)

\* prompts are built for one equipment after the other
InitPrompt ==
    /\ pc = "prompt"
    /\ equipment_map = <<>>
    /\ pre_map = <<>>
    /\ extracted_data = <<>>
    /\ Idle
    /\ SheetIdle
    /\ UIIdle

\* masterfile_extractor.py:42, prompt = self._build_prompt(equipment_number, equipment)
BuildPrompt ==
    /\ pc = "prompt"
    /\ Len(ops) < MaxPrompts
    /\ \E equipment_number \in PromptNumbers, equipment_description \in Descriptions :
          ops' = Append(ops, [equipment_description |-> equipment_description,
                              prompt |-> _build_prompt(equipment_number,
                                                       equipment_description)])
    /\ UNCHANGED <<pc, equipment_map, pre_map, extracted_data, extraction_vars, ws,
                   pre_ws, current_row, current_equipment, file_path, os_name, saved, ui_vars>>

NextPrompt == BuildPrompt

NextSave ==
    \/ NextSheet
    \/ SaveToExcelFails

NextMerge ==
    \/ UpdateEquipment
    \/ UpdateEquipmentAgain

SpecMerge == InitMerge /\ [][NextMerge]_vars

\* operations on a loaded map, in any order
SpecOps == InitOps /\ [][NextOps]_vars

\* read_masterfile, an update of the entities or none, save_to_excel
SpecSheet == InitSheet /\ [][NextSheet]_vars

\* extraction started from the New Work view, once or more
SpecThreads == InitThreads /\ [][NextThreads]_vars

\* _build_prompt on its own, for every kind of equipment
SpecPrompt == InitPrompt /\ [][NextPrompt]_vars

\* the same, from every workbook path, with save_to_excel failing or not
SpecSave == InitSave /\ [][NextSave]_vars

---------------------------------------------------------------------------
(* Properties of the extraction batch, under Spec                           *)

\* the failures the specification calls transient: overloaded / 529
TransientErrors == {Msg529, MsgOverloaded}

\* every attempt of the current extract call reached the service and failed
\* with a transient error
AllTransient ==
    /\ outcomes # <<>>
    /\ \A i \in 1..Len(outcomes) :
          outcomes[i].kind = "service" /\ outcomes[i].msg \in TransientErrors

Failed(i) == outcomes[i].kind \in {"service", "compress"}

\* C1: when every service call for an image fails with a transient error,
\* extract_technical_data goes on calling until it has made exactly
\* max_retries = 5 service calls, and then returns an empty result (it returns:
\* no exception leaves it).
C1_TransientExhaustsRetries ==
    AllTransient =>
        /\ calls = Len(outcomes)
        /\ pc = "attempt" => calls < max_retries
        /\ pc # "attempt" =>
              /\ calls = max_retries
              /\ calls = 5
              /\ technical_data = EmptyDict

C1_Witness ==
    /\ pc = "returned"
    /\ AllTransient
    /\ calls = 5
    /\ \E i \in 1..Len(outcomes) : outcomes[i].msg = MsgOverloaded

\* C2: process_equipment_images attempts extraction for every equipment and
\* returns normally: no failure on one equipment (no images, a missing or empty
\* PMT number, a missing file, a service error, an empty parse result) raises
\* out of the batch or keeps the remaining equipment from being processed.
C2_BatchNeverRaises ==
    /\ pc # "batch_raised"
    /\ pc \in {"update", "done", "update_raised"} => eq_idx = Len(equipment_map) + 1

\* what the claims call component data
NonEmptyData(d) ==
    /\ "components_data" \in DOMAIN d
    /\ d["components_data"] # <<>>

\* the equipment the entries of `tried` belong to
TriedEquipment ==
    IF pc \in {"attempt", "returned"} THEN eq_idx ELSE eq_idx - 1

\* C3: the candidate images of an equipment are tried one after another in
\* sorted order; an image without component data is followed by the next
\* candidate; the first image with non-empty component data gives the
\* equipment's result and no remaining candidate is handed to the service.
C3_ImagesTriedInOrderUntilData ==
    tried # <<>> =>
        /\ Len(tried) <= Len(image_files)
        /\ \A i \in 1..Len(tried) : tried[i].image = image_files[i]
        /\ \A i \in 1..(Len(image_files) - 1) : StrLess(image_files[i], image_files[i + 1])
        /\ \A i \in 1..(Len(tried) - 1) : ~NonEmptyData(tried[i].data)
        /\ pc \in {"attempt", "returned"} =>
              /\ ~NonEmptyData(tried[Len(tried)].data)
              /\ img_idx = Len(tried) + 1
        /\ pc \notin {"attempt", "returned"} =>
              IF NonEmptyData(tried[Len(tried)].data)
              THEN /\ extracted_data # <<>>
                   /\ extracted_data[Len(extracted_data)] =
                         Item(pre_map[TriedEquipment].equipment_number,
                              tried[Len(tried)].data)
              ELSE /\ Len(tried) = Len(image_files)
                   /\ \A k \in 1..Len(extracted_data) :
                         extracted_data[k].equipment_number #
                             pre_map[TriedEquipment].equipment_number

C3_Witness ==
    /\ pc = "find"
    /\ Len(image_files) = 3
    /\ Len(tried) = 2
    /\ ~NonEmptyData(tried[1].data)
    /\ NonEmptyData(tried[2].data)
    /\ extracted_data # <<>>
    /\ extracted_data[Len(extracted_data)].data = tried[2].data

\* C4: a failure that is not of the transient class is never retried: it is
\* the last attempt of its extract_technical_data call, no sleep is taken for
\* it, no service call follows it, and the call returns an empty result.
C4_FatalFailureNotRetried ==
    \A i \in 1..Len(outcomes) :
        (Failed(i) /\ outcomes[i].msg \notin TransientErrors) =>
            /\ i = Len(outcomes)
            /\ pc # "attempt"
            /\ technical_data = EmptyDict
            /\ Len(sleeps) = i - 1
            /\ calls = Cardinality({j \in 1..i : outcomes[j].kind \in {"service", "ok"}})

C4_Witness ==
    /\ pc = "returned"
    /\ Len(outcomes) = 3
    /\ outcomes[3] = [kind |-> "service", msg |-> Msg401]
    /\ Len(sleeps) = 2
    /\ calls = 3

\* C5: the sleep after the transiently failed attempt a (from 0) lasts
\* base_delay * 2^a; with base_delay = 1 the delays of one call are 1, 2, 4, 8,
\* ..., each twice the one before.
C5_BackoffDoubles ==
    /\ base_delay = 1
    /\ \A k \in 1..Len(sleeps) :
          /\ sleeps[k] = <<1, 2, 4, 8, 16>>[k]
          /\ k > 1 => sleeps[k] = 2 * sleeps[k - 1]
          /\ outcomes[k].msg \in TransientErrors
    /\ pc = "attempt" => Len(sleeps) = attempt

C5_Witness ==
    /\ pc = "attempt"
    /\ attempt = 4
    /\ sleeps = <<1, 2, 4, 8>>

---------------------------------------------------------------------------
(* Properties of the merge, under SpecMerge                                 *)

\* update_equipment has run (to its end, or to an escaping exception)
Merged == pc \in {"done", "update_raised"}

\* the existing_data key each extracted field is merged into
TargetKey(f) ==
    CASE f = "fluid" -> "fluid"
      [] f = "material_specification" -> "spec"
      [] f = "material_grade" -> "grade"
      [] f = "insulation" -> "insulation"
      [] f = "design_temperature" -> "design_temp"
      [] f = "design_pressure" -> "design_pressure"
      [] f = "operating_temperature" -> "operating_temp"
      [] f = "operating_pressure" -> "operating_pressure"

Sentinel(v) == v = NOT_FOUND \/ v = <<>>

EqIndexes(number) ==
    {e \in 1..Len(pre_map) : pre_map[e].equipment_number = number}

CompIndexes(e, name) ==
    {c \in 1..Len(pre_map[e].components) :
        pre_map[e].components[c].component_name = name}

ComponentsDataOf(k) ==
    IF "components_data" \in DOMAIN extracted_data[k].data
    THEN extracted_data[k].data["components_data"]
    ELSE <<>>

\* the per-component dictionaries of the extraction result that name a
\* component of the map: equipment index e, component index c, dictionary cd
Entries ==
    UNION {UNION {{[e |-> e, c |-> c, cd |-> ComponentsDataOf(k)[n]] :
                      c \in CompIndexes(e, ComponentsDataOf(k)[n]["component_name"])} :
                  e \in EqIndexes(extracted_data[k].equipment_number),
                  n \in {m \in 1..Len(ComponentsDataOf(k)) :
                            "component_name" \in DOMAIN ComponentsDataOf(k)[m]}} :
           k \in 1..Len(extracted_data)}

Pre(e, c) == pre_map[e].components[c].existing_data
Post(e, c) == equipment_map[e].components[c].existing_data

\* C6: for every component and every field, an extracted value equal to
\* "NOT_FOUND" or to the empty string causes no write: after update_equipment
\* the existing_data value is the one it had before the merge.
C6_SentinelNeverWrites ==
    Merged =>
        \A x \in Entries :
            \A f \in DOMAIN x.cd \cap SourceFields :
                Sentinel(x.cd[f]) =>
                    Post(x.e, x.c)[TargetKey(f)] = Pre(x.e, x.c)[TargetKey(f)]

C6_Witness ==
    /\ pc = "done"
    /\ \E x \in Entries :
          /\ SourceFields \subseteq DOMAIN x.cd
          /\ x.cd["fluid"] = EmptyStr
          /\ x.cd["insulation"] = NOT_FOUND
          /\ Pre(x.e, x.c)["fluid"] # None
          /\ Post(x.e, x.c)["fluid"] = Pre(x.e, x.c)["fluid"]
          /\ Post(x.e, x.c)["spec"] # Pre(x.e, x.c)["spec"]

\* C7: for an insulation-only equipment update_equipment writes no
\* existing_data field other than insulation, whatever the extraction result
\* contains.
C7_InsulationOnlyWritesInsulationOnly ==
    Merged =>
        \A e \in 1..Len(pre_map) :
            pre_map[e].equipment_number \in INSULATION_ONLY_EQUIPMENT =>
                \A c \in 1..Len(pre_map[e].components) :
                    \A key \in ExistingKeys \ {"insulation"} :
                        Post(e, c)[key] = Pre(e, c)[key]

C9_SkipOperatingNeverWritten ==
    Merged =>
        \A e \in 1..Len(pre_map) :
            pre_map[e].equipment_number \in SKIP_OPERATING_PRESSURE_TEMPERATURE =>
                \A c \in 1..Len(pre_map[e].components) :
                    /\ Post(e, c)["operating_temp"] = Pre(e, c)["operating_temp"]
                    /\ Post(e, c)["operating_pressure"] = Pre(e, c)["operating_pressure"]

C9_Witness ==
    /\ pc = "done"
    /\ \E x \in Entries :
          /\ pre_map[x.e].equipment_number \in SKIP_OPERATING_PRESSURE_TEMPERATURE
          /\ SourceFields \subseteq DOMAIN x.cd
          /\ x.cd["operating_temperature"] = TempNeg
          /\ x.cd["operating_pressure"] = PressUnit
          /\ Post(x.e, x.c)["operating_temp"] = Pre(x.e, x.c)["operating_temp"]
          /\ Post(x.e, x.c)["insulation"] # Pre(x.e, x.c)["insulation"]

\* C11: update_equipment is idempotent: applying it a second time with the
\* same extraction result leaves the equipment map as the first application
\* left it (and ends the way the first application ended).
C11_UpdateEquipmentIdempotent ==
    [][(pc \in {"done", "update_raised"}) =>
          ((equipment_map' = equipment_map) /\ ((pc = "done") <=> (pc' = "again")))]_vars

C11_Witness ==
    /\ pc = "again"
    /\ equipment_map # pre_map
    /\ \E x \in Entries :
          /\ SourceFields \subseteq DOMAIN x.cd
          /\ Pre(x.e, x.c)["fluid"] # None
          /\ Post(x.e, x.c)["fluid"] # Pre(x.e, x.c)["fluid"]
          /\ Post(x.e, x.c)["design_temp"] # Pre(x.e, x.c)["design_temp"]

\* str.strip() of leading and trailing blanks
RECURSIVE Trim(_)
Trim(s) ==
    IF s # <<>> /\ s[1] = " " THEN Trim(Tail(s))
    ELSE IF s # <<>> /\ s[Len(s)] = " " THEN Trim(SubSeq(s, 1, Len(s) - 1))
    ELSE s

\* the coercion the specification states: drop every character other than
\* 0-9, '.', '-'; the float the residue parses as, else the trimmed original
Coerced(v) ==
    LET residue == SelectSeq(v, LAMBDA c : c \in Digits \cup {".", "-"})
    IN  IF FloatParses(residue) THEN Float(residue) ELSE Trim(v)

TempPressFields ==
    {"design_temperature", "design_pressure", "operating_temperature",
     "operating_pressure"}

\* C12: every temperature or pressure value the merge writes is stored as
\* the float its digits, '.' and '-' parse as ("150 deg C" gives 150.0), or else
\* as the original string with leading and trailing whitespace trimmed.
C12_TempPressureCoerced ==
    pc = "done" =>
        \A x \in Entries :
            pre_map[x.e].equipment_number \notin SKIP_OPERATING_PRESSURE_TEMPERATURE =>
                \A f \in DOMAIN x.cd \cap TempPressFields :
                    ~Sentinel(x.cd[f]) =>
                        Post(x.e, x.c)[TargetKey(f)] = Coerced(x.cd[f])

\* the same for the values on which the code and the stated rule agree:
\* no blank at either end, no character that isdigit() takes for a digit
\* and float() refuses, not a yes/no token
C12_HoldsForPlainValues ==
    pc = "done" =>
        \A x \in Entries :
            pre_map[x.e].equipment_number \notin SKIP_OPERATING_PRESSURE_TEMPERATURE =>
                \A f \in DOMAIN x.cd \cap TempPressFields :
                    (/\ ~Sentinel(x.cd[f])
                     /\ Trim(x.cd[f]) = x.cd[f]
                     /\ \A i \in 1..Len(x.cd[f]) : x.cd[f][i] # "sup2"
                     /\ (Lower(x.cd[f]) \in {<<"y", "e", "s">>, <<"n", "o">>}
                            => Lower(x.cd[f]) = x.cd[f]))
                    => Post(x.e, x.c)[TargetKey(f)] = Coerced(x.cd[f])

YesNo == {<<"y", "e", "s">>, <<"n", "o">>}

\* C13: an insulation value the merge writes that equals "yes" or "no"
\* ignoring letter case is stored as the lower-case token; any other
\* insulation value is stored as provided.
C13_InsulationCaseNormalised ==
    pc = "done" =>
        \A x \in Entries :
            ("insulation" \in DOMAIN x.cd /\ ~Sentinel(x.cd["insulation"])) =>
                Post(x.e, x.c)["insulation"] =
                    IF Lower(x.cd["insulation"]) \in YesNo
                    THEN Lower(x.cd["insulation"])
                    ELSE x.cd["insulation"]

\* what the code does instead: the value is stored as provided
C13_InsulationStoredAsProvided ==
    pc = "done" =>
        \A x \in Entries :
            ("insulation" \in DOMAIN x.cd /\ ~Sentinel(x.cd["insulation"])) =>
                Post(x.e, x.c)["insulation"] = x.cd["insulation"]

\* C16: update_equipment never raises: an entry naming an equipment absent
\* from the map, a component the equipment does not have, or a dictionary
\* lacking a field key is skipped and the rest of the result is merged.
C16_UpdateEquipmentNeverRaises ==
    pc # "update_raised"

\* absent equipment and absent components are skipped: when every dictionary
\* carries component_name and the eight field keys nothing is raised
C16_HoldsWithAllFieldKeys ==
    (\A k \in 1..Len(extracted_data) : \A n \in 1..Len(ComponentsDataOf(k)) :
           SourceFields \cup {"component_name"} \subseteq DOMAIN ComponentsDataOf(k)[n])
    => pc \notin {"update_raised", "again_raised"}

\* the value the merge stores for a non-sentinel extracted value
Stored(f, v) ==
    IF f \in {"design_temperature", "design_pressure", "operating_temperature",
              "operating_pressure"}
    THEN _convert_value(v)
    ELSE v

\* C10: for an equipment that is neither insulation-only nor skip-operating,
\* every extracted field with a non-sentinel value is written to its target
\* key of the matching component whatever the previous value was, and every
\* field whose value is the sentinel keeps its previous value, also when the
\* extraction result supplies only some of the fields.
C10_NonSentinelFieldsWritten ==
    Merged =>
        \A x \in Entries :
            pre_map[x.e].equipment_number \notin
                INSULATION_ONLY_EQUIPMENT \cup SKIP_OPERATING_PRESSURE_TEMPERATURE =>
                \A f \in DOMAIN x.cd \cap SourceFields :
                    Post(x.e, x.c)[TargetKey(f)] =
                        IF Sentinel(x.cd[f]) THEN Pre(x.e, x.c)[TargetKey(f)]
                        ELSE Stored(f, x.cd[f])

\* the same for the results in which every dictionary holds all eight fields
C10_HoldsWithAllFieldKeys ==
    (/\ pc = "done"
     /\ \A k \in 1..Len(extracted_data) : \A n \in 1..Len(ComponentsDataOf(k)) :
           SourceFields \cup {"component_name"} \subseteq DOMAIN ComponentsDataOf(k)[n])
    => C10_NonSentinelFieldsWritten

---------------------------------------------------------------------------
(* Properties of the operations on a loaded map, under SpecOps              *)

LastOp == ops[Len(ops)]

\* the component the last operation was aimed at: <<e, c>>, <<0, 0>> for none
LastTarget ==
    LET e == MapIndex(pre_map, LastOp.number)
        c == IF e = 0 THEN 0 ELSE get_component(pre_map[e], LastOp.name)
    IN  IF e = 0 \/ c = 0 THEN <<0, 0>> ELSE <<e, c>>

\* the last operation's update set holds a key existing_data does not have
LastHasUnknownKey ==
    /\ ops # <<>>
    /\ LastTarget # <<0, 0>>
    /\ DOMAIN LastOp.updates \ DOMAIN Pre(LastTarget[1], LastTarget[2]) # {}

C15_SchemaKeysFixed ==
    \A e \in 1..Len(equipment_map) :
        \A c \in 1..Len(equipment_map[e].components) :
            DOMAIN equipment_map[e].components[c].existing_data = ExistingKeys

\* the same without the UI edit: no other operation adds a key
C15_HoldsWithoutUIEdit ==
    (\A i \in 1..Len(ops) : ops[i].op # "ui_edit") => C15_SchemaKeysFixed

---------------------------------------------------------------------------
(* Properties of read_masterfile and save_to_excel, under SpecSheet         *)

TechColumns == {"G", "H", "I", "J", "K", "L", "M", "N", "O"}

\* the existing_data key that belongs to a technical column
TechKey(col) ==
    CASE col = "G" -> "fluid"
      [] col = "H" -> "material_type"
      [] col = "I" -> "spec"
      [] col = "J" -> "grade"
      [] col = "K" -> "insulation"
      [] col = "L" -> "design_temp"
      [] col = "M" -> "design_pressure"
      [] col = "N" -> "operating_temp"
      [] col = "O" -> "operating_pressure"

\* the rows of the sheet from the first data row on, and those the scan reads
DataRows == FirstRow..Len(pre_ws)
ScannedRows == {r \in DataRows : r <= RowCeiling}

IsEquipmentRow(r) ==
    pre_ws[r]["B"] \notin {None, EmptyStr, EquipmentNoHeader}

IsComponentRow(r) ==
    pre_ws[r]["E"] \notin {None, EmptyStr, ComponentsHeader}

\* the component rows of the equipment row r: from r up to the next
\* equipment row, within `rows`
ComponentRows(r, rows) ==
    {q \in rows : /\ q >= r
                  /\ IsComponentRow(q)
                  /\ \A m \in (r + 1)..q : ~IsEquipmentRow(m)}

\* map entry i holds the equipment of row r with the component rows `crows`
HoldsEquipment(i, r, crows) ==
    LET eq == equipment_map[i]
    IN  /\ eq.row_index = r
        /\ eq.equipment_number = pre_ws[r]["B"]
        /\ Len(eq.components) = Cardinality(crows)
        /\ \A j \in 1..Len(eq.components) :
              /\ eq.components[j].row_index \in crows
              /\ eq.components[j].component_name = pre_ws[eq.components[j].row_index]["E"]
              /\ j > 1 => eq.components[j - 1].row_index < eq.components[j].row_index

\* C17: for every sheet with N equipment rows, each followed by Ci component
\* rows, read_masterfile returns exactly N equipment, the i-th holding its
\* Ci components in row order, every row_index being the row it was read at.
C17_ReadYieldsEveryEquipment ==
    pc = "read" =>
        LET rows == {r \in DataRows : IsEquipmentRow(r)}
        IN  /\ Len(equipment_map) = Cardinality(rows)
            /\ \A r \in rows :
                  \E i \in 1..Len(equipment_map) :
                      HoldsEquipment(i, r, ComponentRows(r, DataRows))
            /\ \A i \in 2..Len(equipment_map) :
                  equipment_map[i - 1].row_index < equipment_map[i].row_index

\* the equipment rows read_masterfile keeps: scanned, with a component row,
\* and with no later such row of the same equipment number
KeptRows ==
    {r \in ScannedRows :
        /\ IsEquipmentRow(r)
        /\ ComponentRows(r, ScannedRows) # {}
        /\ \A q \in ScannedRows :
              (q > r /\ IsEquipmentRow(q) /\ pre_ws[q]["B"] = pre_ws[r]["B"])
              => ComponentRows(q, ScannedRows) = {}}

\* the sheet repeats no equipment number among the scanned rows
DistinctNumbers ==
    \A r, q \in ScannedRows :
        (IsEquipmentRow(r) /\ IsEquipmentRow(q) /\ pre_ws[q]["B"] = pre_ws[r]["B"])
        => r = q

\* C17 as amended: the map holds exactly the kept equipment rows, each with
\* its scanned component rows in row order and the row anchors; in row order
\* when no number is repeated.
C17_ReadYieldsKeptEquipment ==
    pc = "read" =>
        /\ Len(equipment_map) = Cardinality(KeptRows)
        /\ \A r \in KeptRows :
              \E i \in 1..Len(equipment_map) :
                  HoldsEquipment(i, r, ComponentRows(r, ScannedRows))
        /\ DistinctNumbers =>
              \A i \in 2..Len(equipment_map) :
                  equipment_map[i - 1].row_index < equipment_map[i].row_index

C17_Witness ==
    /\ pc = "read"
    /\ Len(equipment_map) = 2
    /\ Len(equipment_map[1].components) = 2
    /\ equipment_map[1].row_index = 7
    /\ equipment_map[1].components[2].row_index = 8
    /\ equipment_map[2].row_index = 9

\* C18: an equipment row without a component row before the next equipment
\* row or the end of the scan never appears in the map; every equipment of
\* the map has at least one component.
C18_NoEquipmentWithoutComponents ==
    /\ \A i \in 1..Len(equipment_map) : equipment_map[i].components # <<>>
    /\ \A r \in ScannedRows :
          (IsEquipmentRow(r) /\ ComponentRows(r, ScannedRows) = {})
          => \A i \in 1..Len(equipment_map) : equipment_map[i].row_index # r

C18_Witness ==
    /\ pc = "read"
    /\ Len(equipment_map) = 1
    /\ \E r \in ScannedRows :
          /\ IsEquipmentRow(r)
          /\ ComponentRows(r, ScannedRows) = {}
          /\ pre_ws[r]["B"] = equipment_map[1].equipment_number
          /\ r > equipment_map[1].row_index

\* the components of the map that are anchored at row r
AnchoredAt(r) ==
    {<<e, c>> \in (1..Len(equipment_map)) \X (1..Len(pre_ws)) :
        /\ c <= Len(equipment_map[e].components)
        /\ equipment_map[e].components[c].row_index = r}

\* C19: save_to_excel writes every component's nine current existing_data
\* values into columns G to O of its row_index row and changes no other cell.
C19_SaveWritesAnchoredCellsOnly ==
    pc = "saved" =>
        \A r \in DOMAIN ws : \A col \in Columns :
            IF col \in TechColumns /\ AnchoredAt(r) # {}
            THEN \A x \in AnchoredAt(r) :
                    ws[r][col] =
                        equipment_map[x[1]].components[x[2]].existing_data[TechKey(col)]
            ELSE ws[r][col] = pre_ws[r][col]

C19_Witness ==
    /\ pc = "saved"
    /\ ops # <<>>
    /\ \E r \in ScannedRows :
          /\ AnchoredAt(r) # {}
          /\ ws[r]["G"] = Water
          /\ pre_ws[r]["G"] # Water
          /\ ws[r]["L"] = <<"float", 150, 0>>
    /\ \E r \in ScannedRows :
          /\ AnchoredAt(r) = {}
          /\ pre_ws[r]["G"] # None

\* C20: read_masterfile followed by save_to_excel with no modification in
\* between leaves every technical-field cell of every scanned row with the
\* value it had before the save.
C20_RoundTripKeepsTechnicalCells ==
    (pc = "saved" /\ ops = <<>>) =>
        \A r \in ScannedRows : \A col \in TechColumns : ws[r][col] = pre_ws[r][col]

C20_Witness ==
    /\ pc = "saved"
    /\ ops = <<>>
    /\ Len(equipment_map) = 2
    /\ \E r \in ScannedRows :
          /\ AnchoredAt(r) # {}
          /\ pre_ws[r]["I"] # None
          /\ pre_ws[r]["I"] # pre_ws[r]["J"]

---------------------------------------------------------------------------
(* Properties of save_to_excel, under SpecSave                             *)

\* the save_to_excel call that was made
SaveCall == saved[1]

\* the source file name without its directories: what follows the last
\* separator of the platform
SourceName ==
    CHOOSE name \in {SubSeq(file_path, n + 1, Len(file_path)) : n \in 0..Len(file_path)} :
        /\ \A j \in 1..Len(name) : name[j] \notin Seps(os_name)
        /\ \/ Len(name) = Len(file_path)
           \/ file_path[Len(file_path) - Len(name)] \in Seps(os_name)

\* ".xlsx", the extension of every source workbook
Xlsx == <<".", "x", "l", "s", "x">>

\* the directory and the file name prefix the output has for a user id
OutputDir ==
    CASE SaveCall.user_id = <<>> -> <<"d", "e", "f", "a", "u", "l", "t">>
      [] SaveCall.user_id = <<0>> -> <<"u", "s", "e", "r", "_", "0">>
      [] SaveCall.user_id = <<7>> -> <<"u", "s", "e", "r", "_", "7">>

OutputPrefix ==
    CASE SaveCall.user_id = <<>> -> <<>>
      [] SaveCall.user_id = <<0>> -> <<"0", "_">>
      [] SaveCall.user_id = <<7>> -> <<"7", "_">>

\* C21: the path save_to_excel saves to differs from the source file path; it
\* is <base>_modified<ext> under default/excel without a user id and
\* <id>_<base>_modified<ext> under user_<id>/excel with one.
C21_OutputPathNeverSource ==
    (saved # <<>> /\ SaveCall.output_path # <<>>) =>
        /\ SaveCall.output_path # file_path
        /\ SaveCall.output_path =
              default_path \o <<Sep(os_name)>> \o OutputDir \o <<"/">>
              \o <<"e", "x", "c", "e", "l">> \o <<Sep(os_name)>> \o OutputPrefix
              \o SubSeq(SourceName, 1, Len(SourceName) - Len(Xlsx))
              \o Modified \o Xlsx

\* the source workbook lies in the directory the output is written to
C21_Witness ==
    /\ pc = "saved"
    /\ SaveCall.user_id = <<>>
    /\ file_path = FileInDefault(os_name)
    /\ SubSeq(SaveCall.output_path, 1, Len(file_path) - Len(Xlsx)) =
          SubSeq(file_path, 1, Len(file_path) - Len(Xlsx))

\* C22: save_to_excel never raises; it returns True when the workbook was
\* saved and False when the sheet lookup, a cell write, the directory
\* creation or the file save fails.
C22_SaveNeverRaises ==
    /\ pc # "save_raised"
    /\ saved # <<>> =>
          /\ SaveCall.ret <=> (SaveCall.failure = "none")
          /\ pc = (IF SaveCall.ret THEN "saved" ELSE "save_failed")

\* a cell write failed after the cells of an earlier equipment were written
C22_Witness ==
    /\ pc = "save_failed"
    /\ SaveCall.failure = "cell"
    /\ ~SaveCall.ret
    /\ ws # pre_ws
    /\ ops # <<>>

---------------------------------------------------------------------------
(* Properties of _build_prompt, under SpecPrompt                           *)

\* the variant each kind of equipment is to get
ExpectedVariant ==
    [n \in PromptNumbers |->
        CASE n = "H-001" -> "insulation_only"
          [] n = "H-002" -> "insulation_only"
          [] n = "V-001" -> "full"
          [] n = "V-002" -> "full"
          [] n = "E-009" -> "default"]

---------------------------------------------------------------------------
(* Retry exhaustion and backoff, under Spec                                 *)

\* extract_technical_data has returned after max_retries transient failures
Exhausted ==
    /\ pc = "returned"
    /\ AllTransient
    /\ calls = max_retries

\* C24: once the retry bound is exhausted on transient failures for one
\* candidate image, no further extraction call is issued for that equipment:
\* the batch goes on with the next equipment.
C24_ExhaustionEndsEquipment ==
    [][Exhausted => (pc' # "attempt" /\ eq_idx' = eq_idx + 1)]_vars

\* what holds of the code: after exhaustion the next candidate image of the
\* same equipment is tried when there is one, else the batch goes on
C24_ExhaustionEndsImage ==
    [][Exhausted =>
          IF img_idx < Len(image_files)
          THEN pc' = "attempt" /\ eq_idx' = eq_idx /\ img_idx' = img_idx + 1
          ELSE pc' # "attempt" /\ eq_idx' = eq_idx + 1]_vars

\* every attempt of the extract call got as far as the service call
AllReachedService ==
    \A i \in 1..Len(outcomes) : outcomes[i].kind \in {"service", "ok"}

\* C26: within one extract_technical_data call every backoff sleep is followed
\* by a further service call, so that there are at most calls - 1 sleeps.
C26_NoSleepAfterLastAttempt ==
    (pc = "returned" /\ AllReachedService /\ calls > 0) =>
        Len(sleeps) <= calls - 1

\* what holds of the code: a sleep follows every transient failure, the last
\* permitted attempt included
C26_SleepAfterEveryTransientFailure ==
    (pc = "returned" /\ AllReachedService) =>
        Len(sleeps) =
            Cardinality({i \in 1..Len(outcomes) : outcomes[i].msg \in TransientErrors})

\* C27: in process_and_update_equipment all extraction precedes all merging:
\* the equipment map is unchanged as long as extraction goes on, and the merge
\* starts only after the last equipment has been processed.
C27_ExtractionPrecedesMerge ==
    /\ pc \in {"find", "attempt", "returned", "update", "batch_raised"} =>
          equipment_map = pre_map
    /\ pc \in {"update", "done", "update_raised"} =>
          eq_idx = Len(equipment_map) + 1

\* the first equipment's result was merged after the last equipment's
\* extraction had been tried and had failed
C27_Witness ==
    /\ pc = "done"
    /\ Len(extracted_data) = 1
    /\ extracted_data[1].equipment_number = equipment_map[1].equipment_number
    /\ equipment_map[1] # pre_map[1]
    /\ tried # <<>>
    /\ \A i \in 1..Len(tried) : ~HasComponentData(tried[i].data)

---------------------------------------------------------------------------
(* The skip-operating flag and the frame of the merge, under SpecMerge      *)

DesignFields == {"design_temperature", "design_pressure"}

\* every dictionary of the extraction result holds all the keys that are read
AllFieldKeys ==
    \A k \in 1..Len(extracted_data) : \A n \in 1..Len(ComponentsDataOf(k)) :
        SourceFields \cup {"component_name"} \subseteq DOMAIN ComponentsDataOf(k)[n]

\* C25: the skip-operating flag suppresses the two operating fields only: for
\* a skip-operating equipment that is not insulation-only, a non-sentinel
\* extracted design_temperature or design_pressure is written to design_temp
\* or design_pressure as it is for an unflagged equipment.
C25_SkipWritesDesignFields ==
    (pc = "done" /\ AllFieldKeys) =>
        \A x \in Entries :
            pre_map[x.e].equipment_number \in
                SKIP_OPERATING_PRESSURE_TEMPERATURE \ INSULATION_ONLY_EQUIPMENT =>
                \A f \in DesignFields :
                    ~Sentinel(x.cd[f]) =>
                        Post(x.e, x.c)[TargetKey(f)] = Stored(f, x.cd[f])

\* what holds of the code: for a skip-operating equipment none of the four
\* temperature and pressure fields is ever written
C25_SkipSuppressesDesignFieldsToo ==
    Merged =>
        \A e \in 1..Len(pre_map) :
            pre_map[e].equipment_number \in SKIP_OPERATING_PRESSURE_TEMPERATURE =>
                \A c \in 1..Len(pre_map[e].components) :
                    \A k \in {"design_temp", "design_pressure", "operating_temp",
                              "operating_pressure"} :
                        Post(e, c)[k] = Pre(e, c)[k]

\* the existing_data keys the merge may write
MergeableKeys ==
    {"fluid", "spec", "grade", "insulation", "design_temp", "design_pressure",
     "operating_temp", "operating_pressure"}

\* C30: update_equipment changes nothing but the eight mergeable existing_data
\* fields of components named in the extraction result: no equipment or
\* component is added or removed, material_type, component_name, phase and
\* row_index keep their values, and a component that no entry of the result
\* names (every component of an equipment absent from the result) is unchanged.
C30_UpdateEquipmentFrame ==
    /\ Len(equipment_map) = Len(pre_map)
    /\ \A e \in 1..Len(pre_map) :
          /\ equipment_map[e].equipment_number = pre_map[e].equipment_number
          /\ equipment_map[e].pmt_number = pre_map[e].pmt_number
          /\ equipment_map[e].row_index = pre_map[e].row_index
          /\ Len(equipment_map[e].components) = Len(pre_map[e].components)
          /\ \A c \in 1..Len(pre_map[e].components) :
                /\ equipment_map[e].components[c].component_name =
                      pre_map[e].components[c].component_name
                /\ equipment_map[e].components[c].phase = pre_map[e].components[c].phase
                /\ equipment_map[e].components[c].row_index =
                      pre_map[e].components[c].row_index
                /\ DOMAIN Post(e, c) = DOMAIN Pre(e, c)
                /\ \A k \in DOMAIN Pre(e, c) :
                      Post(e, c)[k] # Pre(e, c)[k] =>
                          /\ k \in MergeableKeys
                          /\ \E x \in Entries : x.e = e /\ x.c = c

\* one component was written; the result also named a component the equipment
\* does not have and an equipment the map does not have
C30_Witness ==
    /\ pc = "done"
    /\ Len(extracted_data) = 2
    /\ \E k \in 1..2 : EqIndexes(extracted_data[k].equipment_number) = {}
    /\ \E k \in 1..2 :
          /\ EqIndexes(extracted_data[k].equipment_number) # {}
          /\ Len(ComponentsDataOf(k)) = 2
          /\ \E e \in EqIndexes(extracted_data[k].equipment_number) :
                /\ Post(e, 1) = Pre(e, 1)
                /\ Post(e, 2) # Pre(e, 2)
                /\ Post(e, 2)["material_type"] = Pre(e, 2)["material_type"]

---------------------------------------------------------------------------
(* Repeated equipment numbers, under SpecSheet                              *)

\* the places of the map that hold the component read at row q
PlacesOfRow(q) ==
    {x \in (1..Len(equipment_map)) \X (1..Len(pre_ws)) :
        /\ x[2] <= Len(equipment_map[x[1]].components)
        /\ equipment_map[x[1]].components[x[2]].row_index = q}

\* C29: no parsed component is lost: every component row the scan attaches to
\* an equipment is held by exactly one equipment of the returned map, also
\* when two equipment rows carry the same equipment number.
C29_NoComponentLost ==
    pc = "read" =>
        \A r \in ScannedRows :
            IsEquipmentRow(r) =>
                \A q \in ComponentRows(r, ScannedRows) :
                    Cardinality(PlacesOfRow(q)) = 1

\* what holds of the code: no component is lost when no number is repeated
C29_HoldsForDistinctNumbers ==
    DistinctNumbers => C29_NoComponentLost

---------------------------------------------------------------------------
(* Extraction threads of the New Work view, under SpecThreads               *)

\* thread t is merging into the equipment of the file it is at
Merging(t) == threads[t].pc = "merge"

\* C28: merging on a given equipment is single-writer: when extraction is
\* started more than once, no two extraction threads are updating the
\* components of the same equipment of the shared map at the same time.
C28_SingleWriterPerEquipment ==
    \A t1, t2 \in 1..Len(threads) :
        (t1 # t2 /\ Merging(t1) /\ Merging(t2)) =>
            selected_files[threads[t1].file] # selected_files[threads[t2].file]

\* what holds of the code: a single extraction thread at a time when every
\* start but the first finds the overlay hidden by a finished thread
C28_HoldsWithoutSecondClick ==
    (\A t \in 2..Len(threads) : threads[t - 1].pc = "done" \/ threads[t].pc = "load") =>
        C28_SingleWriterPerEquipment

=============================================================================
